---- MODULE Spec2Model ----
(***************************************************************************)
(* Model of the trajectory tools of large-scale-viz:                       *)
(*   - the run segmenter of extract_compact_runs / render_overlaid_runs /  *)
(*     analyze_runs,                                                       *)
(*   - the resumable extraction job (run file + progress ledger),          *)
(*   - the compact run codec (write_compact_run, metadata scan, windowed   *)
(*     loader),                                                            *)
(*   - the windowed run player of render_compact_runs.                     *)
(* Time stamps are whole seconds, pixel positions are whole pixels (the    *)
(* region offsets used are integral, so the f32 arithmetic is exact).      *)
(***************************************************************************)
EXTENDS Integers, Sequences, FiniteSets, TLC

VARIABLES
    \* ---- run segmenter (one parquet file being scanned) ----
    seg_pc,               \* "idle" | "group" (inside a user+env group) | "between" | "done"
    seg_args,             \* [tool, min_duration_secs, pallet_start_only]
    frames,               \* the sorted frames read so far (0-based index i is frames[i+1])
    user_env_start,       \* first index of the open user+env group
    run_start,            \* first index of the open run
    run_map_id_progress,  \* progress index of the open run
    candidates,           \* the spans closed so far, before any filter
    runs,                 \* emitted runs, as [first |-> i, last |-> j] (inclusive indices)
    split_log,            \* per compared pair j: what the loop body decided
    \* ---- extraction job ----
    ext_pc,               \* position of the extraction process
    file_idx,             \* index into parquet_files of the file being processed
    processed_files,      \* ledger entries loaded at startup
    output_buf,           \* BufWriter contents of the run file, not yet flushed
    output_disk,          \* run file contents that reached the file
    progress_buf,         \* BufWriter contents of the progress ledger, not yet flushed
    progress_disk,        \* ledger lines that reached the file
    ext_runs,             \* how many times the tool has been started
    ext_start,            \* what the files held when the current process started
    read_failed,          \* the inputs whose read_file failed in the current process
    \* ---- compact run codec ----
    cod_pc,               \* "write" | "scan" | "load" | "done"
    cod_runs,             \* the runs to encode: [sprite_id, coords]
    cod_max,              \* max_coords_per_run
    cod_file,             \* the decoded byte stream of the run file
    cod_cut,              \* how many bytes of cod_file the reader can see
    cod_meta,             \* result of load_compact_runs_metadata ("error" or a sequence)
    cod_loaded,           \* result of load_chunk_coords
    cod_chunk,            \* <<chunk_start, chunk_end>> last loaded
    \* ---- width of the count field on long runs ----
    wide_pc, wide_len, wide_max, wide_declared, wide_written, wide_decoded,
    \* ---- windowed player ----
    play_pc,              \* "start" | "frame" | "render" | "read" | "encode" | "done" | "failed" | "panicked"
    play_args,            \* [fps, interval_ms, speed_multiplier, start_step, max_frames]
    play_file,            \* the decoded byte stream of the input file
    metadata,             \* run metadata of the file being played
    run_offsets,          \* per run phase offset, in units of 1/PhaseDen
    frame_number,
    total_frames,
    current_chunk_idx,    \* -1 is None
    loaded_runs,
    loaded_chunk_start,
    loaded_chunk_end,
    run_directions,
    frame_out,            \* what the last frame did for each run
    chunk_loads,          \* the chunk indices load_chunk_coords was called for, in order
    render_target,        \* frame number of the batch last drawn into the texture, -1 if none
    pixels,               \* frame number of the pixel buffer last read back, -1 if none
    encoder_frames,       \* the frames the encoder received, in the order it received them
    encoder_finished,     \* encoder.finish() was called
    \* ---- sprite of one sequence at one time (interpolator and windowed loop body) ----
    anim_pc,              \* "start" | "state" | "sprite" | "done"
    anim_args,            \* [interval_ms, fps, frame, offset]
    anim_seq,             \* the coordinates of the sequence
    anim_state,           \* Option<AnimationState>
    anim_instance,        \* Option<SpriteInstance> of interpolate_sprite
    anim_windowed,        \* what the windowed loop body does with the same run
    \* ---- coordinate mapper ----
    map_pc,               \* "call" once the mapper is built
    map_regions,          \* the region table of the mapper
    map_calls,            \* the calls made so far: [coords, result]
    \* ---- chunks of the coordinate index range ----
    part_pc,              \* "start" | "frame"
    part_max,             \* max_coords
    part_size,            \* chunk_size
    part_num,             \* num_chunks
    part_index,           \* median_coord_index of the frame last looked at
    part_needed,          \* needed_chunk_idx of that frame, -1 before the first
    \* ---- video encoder (ProResEncoder) ----
    pipe_pc,              \* "open" | "finished" | "finish_failed"
    pipe_size,            \* <<width, height>>
    rgb_stream,           \* the bytes written to the stdin of the RGB encoder
    mask_stream,          \* the bytes written to the stdin of the mask encoder
    pipe_calls,           \* the write_frame calls made so far and what each returned
    \* ---- grouping of frames into sequences ----
    grp_pc,               \* "group" | "done"
    grp_tool,             \* "group_into_sequences" | "analyze_runs"
    grp_frames,           \* the frames read, in file order
    grp_next,             \* how many of them the loop has consumed
    sequences,            \* the HashMap: key -> sequence
    grp_result            \* the sequences returned, frames sorted

segVars == <<seg_pc, seg_args, frames, user_env_start, run_start,
             run_map_id_progress, candidates, runs, split_log>>
extVars == <<ext_pc, file_idx, processed_files, output_buf, output_disk,
             progress_buf, progress_disk, ext_runs, ext_start, read_failed>>
codVars == <<cod_pc, cod_runs, cod_max, cod_file, cod_cut, cod_meta, cod_loaded, cod_chunk>>
wideVars == <<wide_pc, wide_len, wide_max, wide_declared, wide_written, wide_decoded>>
playVars == <<play_pc, play_args, play_file, metadata, run_offsets, frame_number, total_frames,
              current_chunk_idx, loaded_runs, loaded_chunk_start, loaded_chunk_end,
              run_directions, frame_out, chunk_loads, render_target, pixels,
              encoder_frames, encoder_finished>>
encVars == <<render_target, pixels, encoder_frames, encoder_finished>>
animVars == <<anim_pc, anim_args, anim_seq, anim_state, anim_instance, anim_windowed>>
mapVars == <<map_pc, map_regions, map_calls>>
partVars == <<part_pc, part_max, part_size, part_num, part_index, part_needed>>
pipeVars == <<pipe_pc, pipe_size, rgb_stream, mask_stream, pipe_calls>>
grpVars == <<grp_pc, grp_tool, grp_frames, grp_next, sequences, grp_result>>
vars == <<segVars, extVars, codVars, wideVars, playVars, animVars, mapVars, partVars, pipeVars,
          grpVars>>

(***************************************************************************)
(* Helpers                                                                 *)
(***************************************************************************)
Min(a, b) == IF a < b THEN a ELSE b
Max(a, b) == IF a > b THEN a ELSE b
Abs(a) == IF a < 0 THEN -a ELSE a
Range(s) == {s[i] : i \in 1..Len(s)}

\* slice.iter().position(|&x| x == v): first 0-based index, -1 for None
Position(s, v) ==
    IF \E i \in 1..Len(s) : s[i] = v
    THEN (CHOOSE i \in 1..Len(s) : s[i] = v /\ \A k \in 1..(i-1) : s[k] # v) - 1
    ELSE -1

(***************************************************************************)
(* Coordinate mapper                                                       *)
(***************************************************************************)
\* an unknown region mapped to the origin of the canvas
INVALID_AS_ORIGIN == <<0, 0>>

INVALID_MAP_ID_FLAG == <<117117, 117117>>

\* the centred position left as it is
top_left_untranslated(centered) == centered

\* "Offset to top-left coordinate system": x_centered + 4096.0
top_left(centered) == centered + 4096

\* the offset of the region left out
centered_without_offset(c, offset, twice_center) == ((2 * c - twice_center) * 16) \div 2

\* (c as f32 + region.coordinates - center) * 16.0, the center given doubled
centered(c, offset, twice_center) == ((2 * (c + offset) - twice_center) * 16) \div 2

\* The region table (map_data.json): region id -> offset of the region.
Regions ==
    [id \in {0, 1, 12, 13, 37, 40, 51} |->
        CASE id = 0  -> <<100, 300>>
          [] id = 1  -> <<100, 200>>
          [] id = 12 -> <<100, 250>>
          [] id = 13 -> <<100, 150>>
          [] id = 37 -> <<150, 300>>
          [] id = 40 -> <<160, 300>>
          [] id = 51 -> <<100, 100>>]

\* CoordinateMapper::convert_coords on a mapper whose table is regions:
\* (c + offset - 217.5) * 16 + 4096 and (c + offset - 221.5) * 16 + 4096
convert_coords_of(regions, coords) ==
    IF coords[3] \in DOMAIN regions
    THEN LET region == regions[coords[3]]
             x_centered == centered(coords[1], region[1], 435)
             y_centered == centered(coords[2], region[2], 443)
         IN <<top_left(x_centered), top_left(y_centered)>>
    ELSE INVALID_MAP_ID_FLAG

\* the mapper the tools load from map_data.json
convert_coords(coords) == convert_coords_of(Regions, coords)

(***************************************************************************)
(* Run segmenter                                                           *)
(***************************************************************************)
gap_threshold == 120
required_order_init_idx == 5
starting_maps == <<0, 37, 40, 38, 39>>
starting_and_adjacent_maps == <<0, 37, 40, 39, 38, 12, 32>>
map_id_order_required ==
    <<0, 37, 40, 38, 39, 12, 1, 13, 51, 2, 54, 14, 59, 60, 61, 15, 3, 35, 36, 88, 16, 17, 5>>
reset_maps == <<0, 37, 40>>

\* The transitions table (transitions_weak.json), keyed "[prev]-[cur]".
WARP_V2 == {<<40, 37>>, <<37, 40>>, <<37, 0>>, <<0, 37>>, <<0, 12>>, <<12, 0>>,
            <<12, 1>>, <<1, 12>>, <<1, 13>>, <<13, 1>>, <<13, 51>>}

valid_coordinate_pair_v2(prev_map, cur_map) == <<prev_map, cur_map>> \in WARP_V2

Frame(fr, i) == fr[i + 1]

time_gap(fr, j) == Frame(fr, j).timestamp - Frame(fr, j - 1).timestamp

\* (dx*dx + dy*dy).sqrt() > 30.0, on whole pixels
global_step_delta_over_30(previous_coord, current_coord) ==
    LET current_global_pos == convert_coords(current_coord)
        previous_global_pos == convert_coords(previous_coord)
        dx == current_global_pos[1] - previous_global_pos[1]
        dy == current_global_pos[2] - previous_global_pos[2]
    IN dx * dx + dy * dy > 900

\* the early jump test applied whether or not pallet_start_only is set
early_big_jump_any_mode(fr, j, rs, args) ==
    j - rs < 140 /\ global_step_delta_over_30(Frame(fr, j - 1).coords, Frame(fr, j).coords)

early_big_jump_fail(fr, j, rs, args) ==
    LET step_count == j - rs
        exact_start_compatible == TRUE
    IN args.pallet_start_only
       /\ (~exact_start_compatible
           \/ (step_count < 140
               /\ global_step_delta_over_30(Frame(fr, j - 1).coords, Frame(fr, j).coords)))

warp_valid(previous_coord, current_coord) ==
    \/ valid_coordinate_pair_v2(previous_coord[3], current_coord[3])
    \/ current_coord[3] = 0
    \/ current_coord[3] = 1
    \/ current_coord[3] = 40

contiguous_local_coords_valid(previous_coord, current_coord) ==
    /\ Abs(current_coord[1] - previous_coord[1]) + (current_coord[2] - previous_coord[2]) <= 60
    /\ current_coord[3] = previous_coord[3]

coordinate_change_valid(previous_coord, current_coord) ==
    warp_valid(previous_coord, current_coord)
    \/ contiguous_local_coords_valid(previous_coord, current_coord)

current_progress_idx_res(current_coord) == Position(map_id_order_required, current_coord[3])

\* no backtrack ever tolerated
never_legal_backtrack(current_coord, progress) == FALSE

legal_backtrack(current_coord, progress) ==
    LET current_progress_idx == current_progress_idx_res(current_coord)
    IN current_progress_idx # -1
       /\ current_progress_idx < progress
       /\ current_progress_idx > 5

\* a skip ahead counted only from three checkpoints up
skip_ahead_over_two(current_coord, progress) ==
    LET current_progress_idx == current_progress_idx_res(current_coord)
    IN current_progress_idx # -1 /\ current_progress_idx - progress > 2

\* no region ever counted as a skip ahead
never_skip_ahead(current_coord, progress) == FALSE

illegal_skip_ahead(current_coord, progress) ==
    LET current_progress_idx == current_progress_idx_res(current_coord)
    IN current_progress_idx # -1 /\ current_progress_idx - progress > 1

\* run_map_id_progress after the checkpoint block, before any reset by a split
progress_after(current_coord, progress) ==
    LET current_progress_idx == current_progress_idx_res(current_coord)
    IN IF current_progress_idx # -1 /\ ~(current_progress_idx - progress > 1)
       THEN Max(progress, current_progress_idx)
       ELSE progress

\* no transition ever found invalid
transition_never_invalid(previous_coord, current_coord, progress) == FALSE

full_transition_invalid(previous_coord, current_coord, progress) ==
    ~(coordinate_change_valid(previous_coord, current_coord)
      \/ legal_backtrack(current_coord, progress))

\* no entry into a start region ever split
reset_split_never(prev_map, curr_map) == FALSE

reset_split(prev_map, curr_map) ==
    curr_map \in Range(starting_maps) /\ prev_map \notin Range(starting_and_adjacent_maps)

\* the gap test with > in place of >=
gap_split_strict(fr, j) == time_gap(fr, j) > gap_threshold

gap_split(fr, j) == time_gap(fr, j) >= gap_threshold

\* extract_compact_runs: should_split for the pair (j-1, j)
should_split(fr, j, rs, progress, args) ==
    LET previous_coord == Frame(fr, j - 1).coords
        current_coord == Frame(fr, j).coords
    IN \/ illegal_skip_ahead(current_coord, progress)
       \/ full_transition_invalid(previous_coord, current_coord, progress)
       \/ gap_split(fr, j)
       \/ early_big_jump_fail(fr, j, rs, args)
       \/ reset_split(previous_coord[3], current_coord[3])

\* render_overlaid_runs / analyze_runs: should_split for the pair (j-1, j)
should_split_simple(fr, j) ==
    \/ gap_split(fr, j)
    \/ (Frame(fr, j).coords[3] \in Range(reset_maps)
        /\ Frame(fr, j - 1).coords[3] \notin Range(reset_maps))

min_duration(args) == args.min_duration_secs

\* a run accepted wherever it starts
pallet_start_anywhere(fr, rs, args) == TRUE

pallet_start_ok(fr, rs, args) ==
    IF args.pallet_start_only THEN Frame(fr, rs).coords[3] \in Range(starting_maps) ELSE TRUE

\* duration of the span [rs, last]
duration(fr, rs, last) == Frame(fr, last).timestamp - Frame(fr, rs).timestamp

\* the filter of a span closed by a split, without its duration test
split_run_written_no_duration(fr, j, rs, args) ==
    /\ pallet_start_ok(fr, rs, args)
    /\ ~early_big_jump_fail(fr, j, rs, args)

\* the filter of a span closed by a split, blind to the early jump
split_run_written_despite_jump(fr, j, rs, args) ==
    /\ duration(fr, rs, j - 1) >= min_duration(args)
    /\ pallet_start_ok(fr, rs, args)

\* extract_compact_runs: is the span closed by a split at j written?
split_run_written(fr, j, rs, args) ==
    /\ duration(fr, rs, j - 1) >= min_duration(args)
    /\ pallet_start_ok(fr, rs, args)
    /\ ~early_big_jump_fail(fr, j, rs, args)

\* extract_compact_runs: is the final span [rs, user_env_end) written?
final_run_written(fr, user_env_end, rs, args) ==
    /\ duration(fr, rs, user_env_end - 1) >= min_duration(args)
    /\ pallet_start_ok(fr, rs, args)

\* render_overlaid_runs: the duration filter applied to a closed span
simple_run_kept(fr, rs, last, args) == duration(fr, rs, last) >= min_duration(args)

(***************************************************************************)
(* The sample stream of one parquet file, as the sort leaves it: ordered   *)
(* by (user, env_id, timestamp, path_index).  Each step of the scan draws  *)
(* the next frame of that order.                                           *)
(***************************************************************************)
MaxFrames == 4
SegUsers == <<"u1", "u2">>
SegEnvs == <<"e1">>
SegTimes == {0, 60, 120}
SegPathIdx == {0}
SegSprites == {7}
\* the strict rules of extract_compact_runs read regions 40 (start), 12 (adjacent,
\* checkpoint 5), 1 (checkpoint 6) and 51 (checkpoint 8); the other tools read
\* only whether a region is a reset map
SegCoords(tool) ==
    IF tool = "extract"
    THEN {<<5, 5, 40>>, <<5, 5, 12>>, <<5, 5, 1>>, <<5, 5, 51>>}
    ELSE {<<5, 5, 40>>, <<5, 5, 12>>}
SegTools == {"extract", "overlaid", "analyze"}

SegArgSet ==
    {a \in [tool : SegTools, min_duration_secs : {60}, pallet_start_only : BOOLEAN,
            stream : {"regions"}] :
        a.pallet_start_only => a.tool = "extract"}

SegFrames(tool) ==
    [timestamp : SegTimes, user : Range(SegUsers), env_id : Range(SegEnvs),
     sprite_id : SegSprites, coords : SegCoords(tool), path_index : SegPathIdx]

\* Streams of one group for the strict rules of extract_compact_runs:
\*   "local"  moves inside region 12, short and long, both ways on each axis
\*   "steps"  walks and jumps inside the start region 40, and region 12
\*   "climb"  a run that has walked 12, 1, 13, 51 (progress index 8) and goes on
StrictStreams == {"local", "steps", "climb"}

StrictCoords(stream) ==
    CASE stream = "local" -> {<<5, 5, 12>>, <<5, 100, 12>>, <<70, 5, 12>>}
      [] stream = "steps" -> {<<5, 5, 40>>, <<6, 5, 40>>, <<7, 5, 40>>, <<5, 5, 12>>}
      [] OTHER -> {<<5, 5, 13>>, <<5, 100, 13>>, <<5, 5, 51>>, <<5, 5, 12>>, <<5, 5, 40>>}

StrictTimes == {0, 60, 180, 240}

StrictFrame(ts, coords) ==
    [timestamp |-> ts, user |-> "u1", env_id |-> "e1", sprite_id |-> 7,
     coords |-> coords, path_index |-> 0]

\* the frames every stream of the kind starts with
StreamPrefix(stream) ==
    IF stream = "climb"
    THEN <<StrictFrame(0, <<5, 5, 12>>), StrictFrame(0, <<5, 5, 1>>),
           StrictFrame(0, <<5, 5, 13>>), StrictFrame(0, <<5, 5, 51>>)>>
    ELSE <<>>

StrictArgSet ==
    {a \in [tool : {"extract"}, min_duration_secs : {60}, pallet_start_only : BOOLEAN,
            stream : StrictStreams] :
        a.pallet_start_only => a.stream = "steps"}

\* the frames the stream can hold at 0-based index n
NextFrames(args, n) ==
    IF args.stream = "regions" THEN SegFrames(args.tool)
    ELSE IF n < Len(StreamPrefix(args.stream)) THEN {StreamPrefix(args.stream)[n + 1]}
    ELSE {StrictFrame(ts, c) : ts \in StrictTimes, c \in StrictCoords(args.stream)}

\* the longest stream of the kind
MaxStream(args) ==
    IF args.stream = "regions" THEN MaxFrames
    ELSE MaxFrames + Len(StreamPrefix(args.stream))

SameGroup(a, b) == a.user = b.user /\ a.env_id = b.env_id

\* (&a.user, &a.env_id, a.timestamp, a.path_index) <= (&b.user, ...)
SortKeyLeq(a, b) ==
    LET ua == Position(SegUsers, a.user)
        ub == Position(SegUsers, b.user)
        ea == Position(SegEnvs, a.env_id)
        eb == Position(SegEnvs, b.env_id)
    IN \/ ua < ub
       \/ ua = ub /\ ea < eb
       \/ ua = ub /\ ea = eb /\ a.timestamp < b.timestamp
       \/ ua = ub /\ ea = eb /\ a.timestamp = b.timestamp /\ a.path_index <= b.path_index

\* what the loop body decides for the pair (j-1, j) of the open run
PairDecision(fr, j, rs, progress, args) ==
    LET split == IF args.tool = "extract"
                 THEN should_split(fr, j, rs, progress, args)
                 ELSE should_split_simple(fr, j)
        written == /\ split
                   /\ CASE args.tool = "extract" -> split_run_written(fr, j, rs, args)
                        [] args.tool = "overlaid" -> simple_run_kept(fr, rs, j - 1, args)
                        [] OTHER -> FALSE
    IN [j |-> j, run_start |-> rs, progress |-> progress, split |-> split,
        written |-> written]

\* the progress index carried over a split into the next run
progress_kept_over_split(fr, j, progress, args, split) ==
    IF args.tool # "extract" THEN progress
    ELSE progress_after(Frame(fr, j).coords, progress)

\* run_map_id_progress at the end of the loop body
progress_next(fr, j, progress, args, split) ==
    IF args.tool # "extract" THEN progress
    ELSE IF split THEN required_order_init_idx
    ELSE progress_after(Frame(fr, j).coords, progress)

\* analyze_runs: runs.retain(|run| end - start >= 60 s)
retain_min_duration(fr, rs) ==
    SelectSeq(rs, LAMBDA r : duration(fr, r.first, r.last) >= 60)

SegInit ==
    /\ seg_pc = "between"
    /\ seg_args \in SegArgSet
    /\ frames = <<>>
    /\ user_env_start = 0
    /\ run_start = 0
    /\ run_map_id_progress = required_order_init_idx
    /\ candidates = <<>>
    /\ runs = <<>>
    /\ split_log = <<>>

\* the scan of one stream of StrictStreams by extract_compact_runs
StrictInit ==
    /\ seg_pc = "between"
    /\ seg_args \in StrictArgSet
    /\ frames = <<>>
    /\ user_env_start = 0
    /\ run_start = 0
    /\ run_map_id_progress = required_order_init_idx
    /\ candidates = <<>>
    /\ runs = <<>>
    /\ split_log = <<>>

SegIdle ==
    /\ seg_pc = "idle"
    /\ seg_args = [tool |-> "extract", min_duration_secs |-> 60, pallet_start_only |-> FALSE,
                   stream |-> "regions"]
    /\ frames = <<>>
    /\ user_env_start = 0
    /\ run_start = 0
    /\ run_map_id_progress = required_order_init_idx
    /\ candidates = <<>>
    /\ runs = <<>>
    /\ split_log = <<>>

\* the scan reaches the first frame of the next user+env group
OpenGroup ==
    /\ seg_pc = "between"
    /\ Len(frames) < MaxStream(seg_args)
    /\ \E f \in NextFrames(seg_args, Len(frames)) :
        /\ frames # <<>> => (SortKeyLeq(frames[Len(frames)], f)
                             /\ ~SameGroup(frames[Len(frames)], f))
        /\ frames' = Append(frames, f)
    /\ user_env_start' = Len(frames)
    /\ run_start' = Len(frames)
    /\ run_map_id_progress' = required_order_init_idx
    /\ seg_pc' = "group"
    /\ UNCHANGED <<seg_args, candidates, runs, split_log>>

\* one iteration of "for j in (user_env_start + 1)..user_env_end"
ScanPair ==
    /\ seg_pc = "group"
    /\ Len(frames) < MaxStream(seg_args)
    /\ \E f \in NextFrames(seg_args, Len(frames)) :
        /\ SortKeyLeq(frames[Len(frames)], f)
        /\ SameGroup(frames[Len(frames)], f)
        /\ frames' = Append(frames, f)
    /\ LET j == Len(frames)
           d == PairDecision(frames', j, run_start, run_map_id_progress, seg_args)
       IN /\ split_log' = Append(split_log, d)
          /\ run_start' = IF d.split THEN j ELSE run_start
          /\ run_map_id_progress' =
                progress_next(frames', j, run_map_id_progress, seg_args, d.split)
          /\ runs' = IF d.written
                     THEN Append(runs, [first |-> run_start, last |-> j - 1])
                     ELSE runs
          /\ candidates' = IF d.split
                           THEN Append(candidates, [first |-> run_start, last |-> j - 1])
                           ELSE candidates
    /\ UNCHANGED <<seg_pc, seg_args, user_env_start>>

\* the group ends: the final run of the group
CloseGroup ==
    /\ seg_pc = "group"
    /\ LET user_env_end == Len(frames)
           final == [first |-> run_start, last |-> user_env_end - 1]
           written ==
               /\ run_start < user_env_end
               /\ CASE seg_args.tool = "extract" ->
                         final_run_written(frames, user_env_end, run_start, seg_args)
                    [] seg_args.tool = "overlaid" ->
                         simple_run_kept(frames, run_start, user_env_end - 1, seg_args)
                    [] OTHER -> FALSE
       IN /\ runs' = IF written THEN Append(runs, final) ELSE runs
          /\ candidates' = IF run_start < user_env_end
                           THEN Append(candidates, final) ELSE candidates
    /\ seg_pc' = "between"
    /\ UNCHANGED <<seg_args, frames, user_env_start, run_start, run_map_id_progress,
                   split_log>>

\* the stream ends; analyze_runs filters its runs now
EndOfFrames ==
    /\ seg_pc = "between"
    /\ seg_pc' = "done"
    /\ runs' = IF seg_args.tool = "analyze"
               THEN retain_min_duration(frames, candidates) ELSE runs
    /\ UNCHANGED <<seg_args, frames, user_env_start, run_start, run_map_id_progress,
                   candidates, split_log>>

(***************************************************************************)
(* The whole scan of one sorted file, as extract_compact_runs runs it:     *)
(* the spans it writes, in the order it writes them.                       *)
(***************************************************************************)
RECURSIVE group_end(_, _, _)
\* while i < frames.len() && same user && same env_id { i += 1 }
group_end(fr, start, i) ==
    IF i < Len(fr) /\ SameGroup(Frame(fr, i), Frame(fr, start))
    THEN group_end(fr, start, i + 1)
    ELSE i

RECURSIVE scan_group(_, _, _, _, _, _, _)
scan_group(fr, j, user_env_end, rs, progress, args, acc) ==
    IF j < user_env_end
    THEN LET d == PairDecision(fr, j, rs, progress, args)
         IN scan_group(fr, j + 1, user_env_end,
                       IF d.split THEN j ELSE rs,
                       progress_next(fr, j, progress, args, d.split),
                       args,
                       IF d.written THEN Append(acc, [first |-> rs, last |-> j - 1])
                       ELSE acc)
    ELSE IF rs < user_env_end /\ final_run_written(fr, user_env_end, rs, args)
         THEN Append(acc, [first |-> rs, last |-> user_env_end - 1])
         ELSE acc

RECURSIVE scan_file(_, _, _, _)
scan_file(fr, i, args, acc) ==
    IF i < Len(fr)
    THEN LET user_env_end == group_end(fr, i, i)
         IN scan_file(fr, user_env_end, args,
                      scan_group(fr, i + 1, user_env_end, i, required_order_init_idx,
                                 args, acc))
    ELSE acc

RECURSIVE insert_sorted(_, _)
insert_sorted(sorted, f) ==
    IF sorted = <<>> THEN <<f>>
    ELSE IF SortKeyLeq(sorted[Len(sorted)], f) THEN Append(sorted, f)
    ELSE Append(insert_sorted(SubSeq(sorted, 1, Len(sorted) - 1), f), sorted[Len(sorted)])

RECURSIVE sort_frames(_)
\* frames.sort_by(...): a stable sort on (user, env_id, timestamp, path_index)
sort_frames(fr) ==
    IF fr = <<>> THEN <<>>
    ELSE insert_sorted(sort_frames(SubSeq(fr, 1, Len(fr) - 1)), fr[Len(fr)])

(***************************************************************************)
(* Compact run codec: the writer                                           *)
(***************************************************************************)
U16 == 65536

\* Args::max_coords_per_run, at its default
max_coords_per_run == 2000

u8_try_from_ok(v) == 0 <= v /\ v <= 255

\* the three try_from conversions of one coordinate, or the flag (0, 0, 255)
compact_coord(coords) ==
    IF u8_try_from_ok(coords[1]) /\ u8_try_from_ok(coords[2]) /\ u8_try_from_ok(coords[3])
    THEN coords
    ELSE <<0, 0, 255>>

\* frames.len().min(max_coords) as u16
coord_count_u16(len, max_coords) == Min(len, max_coords) % U16

\* frames.iter().take(max_coords): how many coordinates are written
coords_taken(len, max_coords) == Min(len, max_coords)

to_le_bytes(v) == <<v % 256, v \div 256>>

from_le_bytes(b) == b[1] + 256 * b[2]

\* the bytes of the coordinates of fr[1..n], three per coordinate
coord_bytes(fr, n) ==
    [i \in 1..(3 * n) |-> compact_coord(fr[((i - 1) \div 3) + 1].coords)[((i - 1) % 3) + 1]]

write_compact_run(sprite_id, fr, max_coords) ==
    <<sprite_id>>
    \o to_le_bytes(coord_count_u16(Len(fr), max_coords))
    \o coord_bytes(fr, coords_taken(Len(fr), max_coords))

(***************************************************************************)
(* Compact run codec: the metadata scan and the windowed loader            *)
(***************************************************************************)
COORD_SIZE == 3

\* the offset where the coordinates start, with the count bytes left out
coords_offset_without_count(current_offset) == current_offset + 1

\* current_offset after "current_offset += 1" and "current_offset += 2"
coords_offset_after_header(current_offset) == current_offset + 1 + 2

\* a read that accepts a short payload (read in place of read_exact)
payload_read_short(stream, pos, bytes_to_skip) == TRUE

\* reader.read_exact(&mut skip_buffer) succeeds
payload_read_exact(stream, pos, bytes_to_skip) == Len(stream) - pos >= bytes_to_skip

RECURSIVE scan_records(_, _, _, _)
\* the loop of load_compact_runs_metadata: pos is what the reader has consumed,
\* current_offset the offset the loop tracks
scan_records(stream, pos, current_offset, meta) ==
    IF Len(stream) - pos < 1
    THEN [ok |-> TRUE, metadata |-> meta]                \* UnexpectedEof on sprite_id: break
    ELSE IF Len(stream) - (pos + 1) < 2
    THEN [ok |-> FALSE, metadata |-> <<>>]               \* read_exact(&mut count_buf)?
    ELSE LET sprite_id == stream[pos + 1]
             coord_count == from_le_bytes(<<stream[pos + 2], stream[pos + 3]>>)
             coords_offset == coords_offset_after_header(current_offset)
             bytes_to_skip == coord_count * COORD_SIZE
         IN IF ~payload_read_exact(stream, pos + 3, bytes_to_skip)
            THEN [ok |-> FALSE, metadata |-> <<>>]       \* read_exact(&mut skip_buffer)?
            ELSE scan_records(stream, pos + 3 + bytes_to_skip,
                              coords_offset + bytes_to_skip,
                              Append(meta, [sprite_id |-> sprite_id,
                                            coord_count |-> coord_count,
                                            file_offset |-> coords_offset]))

load_compact_runs_metadata(stream) == scan_records(stream, 0, 0, <<>>)

\* how many coordinates of a run of coord_count fall in [chunk_start, chunk_end)
coords_to_load(chunk_start, chunk_end, coord_count) ==
    LET run_chunk_start == Min(chunk_start, coord_count)
        run_chunk_end == Min(chunk_end, coord_count)
    IN IF run_chunk_start < run_chunk_end THEN run_chunk_end - run_chunk_start ELSE 0

\* ptr::read_unaligned of the i-th UltraCompactCoordMem of the buffer read at pos
read_coord(stream, pos, i) ==
    LET offset == i * COORD_SIZE
    IN <<stream[pos + offset + 1], stream[pos + offset + 2], stream[pos + offset + 3]>>

\* the loader with the coordinates before the chunk left unskipped
skip_before_none(run_chunk_start) == 0

\* skip_before = run_chunk_start * size_of::<UltraCompactCoordMem>()
skip_before_bytes(run_chunk_start) == run_chunk_start * COORD_SIZE

\* the loader with the coordinates after the chunk left unread
skip_after_none(coord_count, run_chunk_end) == 0

\* skip_after = (meta.coord_count - run_chunk_end) * size_of::<UltraCompactCoordMem>()
skip_after_bytes(coord_count, run_chunk_end) == (coord_count - run_chunk_end) * COORD_SIZE

RECURSIVE load_runs(_, _, _, _, _, _, _)
\* the loop of load_chunk_coords over the metadata entries k..: pos is what the
\* reader has consumed, current_file_pos the position the loop tracks, reads
\* the reads made for each entry so far
load_runs(stream, metadata_, k, chunk_start, chunk_end, st, acc) ==
    IF k > Len(metadata_) THEN [ok |-> TRUE, runs |-> acc, reads |-> st.reads]
    ELSE
    LET meta == metadata_[k]
        to_offset == IF st.current_file_pos < meta.file_offset
                     THEN meta.file_offset - st.current_file_pos ELSE 0
        pos1 == st.pos + to_offset
        file_pos1 == IF st.current_file_pos < meta.file_offset
                     THEN meta.file_offset ELSE st.current_file_pos
        run_chunk_start == Min(chunk_start, meta.coord_count)
        run_chunk_end == Min(chunk_end, meta.coord_count)
        n == coords_to_load(chunk_start, chunk_end, meta.coord_count)
        skip_before == skip_before_bytes(run_chunk_start)
        bytes_to_read == n * COORD_SIZE
        skip_after == skip_after_bytes(meta.coord_count, run_chunk_end)
        pos2 == pos1 + skip_before
        pos3 == pos2 + bytes_to_read
        pos4 == pos3 + skip_after
        coords == [i \in 1..n |-> read_coord(stream, pos2, i - 1)]
    IN IF pos4 > Len(stream)
       THEN [ok |-> FALSE, runs |-> <<>>, reads |-> <<>>] \* some read_exact(..)? failed
       ELSE load_runs(stream, metadata_, k + 1, chunk_start, chunk_end,
                      [pos |-> pos4,
                       current_file_pos |-> file_pos1 + skip_before + bytes_to_read
                                            + skip_after,
                       reads |-> Append(st.reads,
                                        [entry_pos |-> st.current_file_pos,
                                         to_offset |-> to_offset,
                                         skip_before |-> skip_before,
                                         bytes_to_read |-> bytes_to_read,
                                         skip_after |-> skip_after,
                                         reader_pos |-> pos4,
                                         exit_pos |-> file_pos1 + skip_before
                                                      + bytes_to_read + skip_after])],
                      Append(acc, [sprite_id |-> meta.sprite_id, coords |-> coords]))

load_chunk_coords(stream, metadata_, chunk_start, chunk_end) ==
    load_runs(stream, metadata_, 1, chunk_start, chunk_end,
              [pos |-> 0, current_file_pos |-> 0, reads |-> <<>>], <<>>)

(***************************************************************************)
(* Codec scenario: runs are written to a file, the file (or a prefix of    *)
(* it) is scanned, and a chunk of it is loaded.                            *)
(***************************************************************************)
MaxCodRuns == 3
MaxRunLen == 4
CodMaxes == {2, 2000}

\* coordinates as the frames carry them (i64): in range, on the edges of the
\* byte range, and outside it in each component
CoordPalette ==
    <<(<<1, 2, 3>>), (<<255, 0, 40>>), (<<256, 7, 1>>), (<<9, -1, 2>>),
      (<<10, 11, 300>>), (<<0, 255, 255>>), (<<12, 13, 14>>)>>

\* the i-th coordinate of the k-th run
CoordAt(k, i) == CoordPalette[((i + 2 * k - 3) % Len(CoordPalette)) + 1]

SpriteAt(k) == <<7, 0, 255>>[((k - 1) % 3) + 1]

\* the k-th run, n frames long
RunOfLen(k, n) == [sprite_id |-> SpriteAt(k), fr |-> [i \in 1..n |-> [coords |-> CoordAt(k, i)]]]

RunLists ==
    UNION {{[k \in 1..n |-> RunOfLen(k, lens[k])] : lens \in [1..n -> 0..MaxRunLen]} :
           n \in 0..MaxCodRuns}

RECURSIVE concat_records(_, _, _)
\* what successive write_compact_run calls leave in the file
concat_records(rs, k, max_coords) ==
    IF k > Len(rs) THEN <<>>
    ELSE write_compact_run(rs[k].sprite_id, rs[k].fr, max_coords)
         \o concat_records(rs, k + 1, max_coords)

CodInit ==
    /\ cod_pc = "write"
    /\ cod_runs \in RunLists
    /\ cod_max \in CodMaxes
    /\ cod_file = <<>>
    /\ cod_cut = 0
    /\ cod_meta = [ok |-> TRUE, metadata |-> <<>>]
    /\ cod_loaded = [ok |-> TRUE, runs |-> <<>>, reads |-> <<>>]
    /\ cod_chunk = <<0, 0>>

\* the extraction writes every run
WriteRuns ==
    /\ cod_pc = "write"
    /\ cod_file' = concat_records(cod_runs, 1, cod_max)
    /\ cod_cut' = Len(cod_file')
    /\ cod_pc' = "written"
    /\ UNCHANGED <<cod_runs, cod_max, cod_meta, cod_loaded, cod_chunk>>

\* the reader is given a file that ends early
Truncate ==
    /\ cod_pc = "written"
    /\ \E c \in 0..(Len(cod_file) - 1) : cod_cut' = c
    /\ cod_pc' = "cut"
    /\ UNCHANGED <<cod_runs, cod_max, cod_file, cod_meta, cod_loaded, cod_chunk>>

ScanMetadata ==
    /\ cod_pc \in {"written", "cut"}
    /\ cod_meta' = load_compact_runs_metadata(SubSeq(cod_file, 1, cod_cut))
    /\ cod_pc' = "scanned"
    /\ UNCHANGED <<cod_runs, cod_max, cod_file, cod_cut, cod_loaded, cod_chunk>>

LoadChunk ==
    /\ cod_pc = "scanned"
    /\ cod_meta.ok
    /\ \E chunk_start \in 0..MaxRunLen, chunk_end \in 0..(MaxRunLen + 2) :
        /\ chunk_start <= chunk_end
        /\ cod_chunk' = <<chunk_start, chunk_end>>
        /\ cod_loaded' = load_chunk_coords(SubSeq(cod_file, 1, cod_cut), cod_meta.metadata,
                                           chunk_start, chunk_end)
    /\ cod_pc' = "loaded"
    /\ UNCHANGED <<cod_runs, cod_max, cod_file, cod_cut, cod_meta>>

(***************************************************************************)
(* The count field on long runs: only the lengths are followed.            *)
(***************************************************************************)
WideLens == {0, 1, 2, 1999, 2000, 2001, 32768, 65535, 65536, 65537, 70000, 131072}
WideMaxes == {1, 2000, 32768, 65528, 65535, 65536, 100000}

WideInit ==
    /\ wide_pc = "write"
    /\ wide_len = 0
    /\ wide_max = 0
    /\ wide_declared = 0
    /\ wide_written = 0
    /\ wide_decoded = 0

\* write_compact_run on a run of len frames: the count it declares and the
\* number of coordinates it writes
WriteWide ==
    /\ wide_pc = "write"
    /\ \E len \in WideLens, max_coords \in WideMaxes :
        /\ wide_len' = len
        /\ wide_max' = max_coords
        /\ wide_declared' = from_le_bytes(to_le_bytes(coord_count_u16(len, max_coords)))
        /\ wide_written' = coords_taken(len, max_coords)
    /\ wide_pc' = "written"
    /\ UNCHANGED wide_decoded

\* the scan reads the count field and the loader loads the full index range
\* [0, coord_count) of the record
DecodeWide ==
    /\ wide_pc = "written"
    /\ wide_decoded' = coords_to_load(0, wide_declared, wide_declared)
    /\ wide_pc' = "decoded"
    /\ UNCHANGED <<wide_len, wide_max, wide_declared, wide_written>>

(***************************************************************************)
(* Windowed run player (render_compact_runs).  Times are exact fractions:  *)
(* a run's progress time_ms / effective_interval_ms + offset is the        *)
(* fraction progress_num / progress_den.                                   *)
(***************************************************************************)
MaxPlayLen == 17
PhaseDen == 4
PlayShortLens == {0, 5}

\* (fps, interval_ms, speed_multiplier): the last two are a multiplier above the
\* interval and a multiplier of 0, which the u32 arguments admit
PlayRates ==
    {<<4, 500, 4>>, <<4, 500, 1>>, <<10, 500, 4>>, <<6, 1000, 3>>, <<4, 2, 4>>, <<4, 500, 0>>}
PlayStartSteps == {0, 3}

\* Option<usize>: -1 is None
PlayMaxFrames == {-1, 2}

PlayArgSet ==
    {[fps |-> r[1], interval_ms |-> r[2], speed_multiplier |-> r[3], start_step |-> st,
      max_frames |-> mf] :
        r \in PlayRates, st \in PlayStartSteps, mf \in PlayMaxFrames}

\* the walk the played runs follow; run k starts k - 1 steps into it
PlayPath ==
    <<(<<5, 5, 40>>), (<<6, 5, 40>>), (<<6, 6, 40>>), (<<9, 6, 40>>), (<<9, 6, 1>>),
      (<<9, 10, 1>>), (<<0, 0, 255>>), (<<9, 11, 1>>), (<<8, 11, 1>>), (<<8, 10, 1>>),
      (<<8, 10, 28>>)>>

PlayCoordAt(k, i) == PlayPath[((i + k - 2) % Len(PlayPath)) + 1]

PlaySpriteAt(k) == <<7, 60>>[((k - 1) % 2) + 1]

PlayRun(k, n) ==
    [sprite_id |-> PlaySpriteAt(k), fr |-> [i \in 1..n |-> [coords |-> PlayCoordAt(k, i)]]]

\* the two runs of the input file
PlayFiles ==
    {<<PlayRun(1, n1), PlayRun(2, n2)>> : n1 \in 0..MaxPlayLen, n2 \in PlayShortLens}
    \cup {<<>>}

\* (args.interval_ms / args.speed_multiplier) as f32: the quotient of two u32
effective_interval_ms(args) == args.interval_ms \div args.speed_multiplier

\* "attempt to divide by zero": the u32 division of line 126 panics
division_panics(args) == args.speed_multiplier = 0

RECURSIVE max_coord_count(_, _)
\* metadata.iter().map(|m| m.coord_count).max()
max_coord_count(metadata_, k) ==
    IF k > Len(metadata_) THEN 0
    ELSE Max(metadata_[k].coord_count, max_coord_count(metadata_, k + 1))

max_coords_of(metadata_) == max_coord_count(metadata_, 1)

CeilDiv(a, b) == (a + b - 1) \div b

\* (remaining_duration_ms / 1000.0 * fps).ceil(), limited to max_frames
total_frames_of(args, metadata_) ==
    LET full == CeilDiv((max_coords_of(metadata_) - args.start_step)
                            * effective_interval_ms(args) * args.fps, 1000)
    IN IF args.max_frames >= 0 /\ args.max_frames < full THEN args.max_frames ELSE full

\* (max_coords + 7) / 8
chunk_size_of(max_coords) == (max_coords + 7) \div 8

\* the chunk count, had it been the eight the chunk size is derived from
num_chunks_always_8(max_coords) == 8

\* (max_coords + chunk_size - 1) / chunk_size
num_chunks_of(max_coords) ==
    (max_coords + chunk_size_of(max_coords) - 1) \div chunk_size_of(max_coords)

\* the chunk of the median index, without the clamp to the last chunk
needed_chunk_unclamped(median_index, max_coords) == median_index \div chunk_size_of(max_coords)

\* (median_coord_index / chunk_size).min(num_chunks - 1)
needed_chunk_of(median_index, max_coords) ==
    Min(median_index \div chunk_size_of(max_coords), num_chunks_of(max_coords) - 1)

chunk_size(metadata_) == chunk_size_of(max_coords_of(metadata_))

num_chunks(metadata_) == num_chunks_of(max_coords_of(metadata_))

progress_den(args) == args.fps * effective_interval_ms(args) * PhaseDen

\* time_ms / effective_interval_ms, as a multiple of 1 / progress_den
time_num(args, frame) == frame * 1000 * PhaseDen + args.start_step * progress_den(args)

\* (time_ms / effective_interval_ms + 0.5) as usize
median_coord_index(args, frame) ==
    (2 * time_num(args, frame) + progress_den(args)) \div (2 * progress_den(args))

needed_chunk_idx(args, metadata_, frame) ==
    needed_chunk_of(median_coord_index(args, frame), max_coords_of(metadata_))

\* the window start without the two coordinates of overlap
chunk_start_no_overlap(metadata_, needed) == needed * chunk_size(metadata_)

\* (needed_chunk_idx * chunk_size).saturating_sub(2)
chunk_start_of(metadata_, needed) == Max(needed * chunk_size(metadata_) - 2, 0)

\* the window end without the two coordinates of overlap
chunk_end_no_overlap(metadata_, needed) ==
    Min((needed + 1) * chunk_size(metadata_), max_coords_of(metadata_))

\* the window end without the clamp to the longest run
chunk_end_unclamped(metadata_, needed) == (needed + 1) * chunk_size(metadata_) + 2

\* (((needed_chunk_idx + 1) * chunk_size) + 2).min(max_coords)
chunk_end_of(metadata_, needed) ==
    Min((needed + 1) * chunk_size(metadata_) + 2, max_coords_of(metadata_))

\* time_ms / effective_interval_ms + run_offsets[run_idx]
progress_num(args, frame, offset) ==
    time_num(args, frame) + offset * args.fps * effective_interval_ms(args)

\* Direction of a movement that is not a standstill
new_direction(dx, dy) ==
    IF Abs(dx) > Abs(dy)
    THEN (IF dx > 0 THEN "Right" ELSE "Left")
    ELSE (IF dy > 0 THEN "Down" ELSE "Up")

\* the direction recomputed in every frame, movement or not
direction_always_recomputed(dx, dy, direction) == new_direction(dx, dy)

\* "Determine direction - only update if there's movement": the positions
\* are whole pixels, so |d| > 0.1 is d # 0
direction_after(dx, dy, direction) ==
    IF dx # 0 \/ dy # 0 THEN new_direction(dx, dy) ELSE direction

\* the windowed player interpolating across any distance
should_interpolate_any_distance(pixel_distance) == TRUE

\* pixel_distance <= 3.0 * 16.0
should_interpolate_3_tiles(pixel_distance) == pixel_distance <= 3 * 16

\* the test made on the current position only
map_id_missing_current_only(current_pos, next_pos) == current_pos = INVALID_MAP_ID_FLAG

\* "map id doesn't exist!": current_pos == INVALID_MAP_ID_FLAG || next_pos == INVALID_MAP_ID_FLAG
map_id_missing(current_pos, next_pos) ==
    current_pos = INVALID_MAP_ID_FLAG \/ next_pos = INVALID_MAP_ID_FLAG

NoCoord == <<0, 0, 0>>

Skipped(status, coord_index, direction) ==
    [status |-> status, coord_index |-> coord_index, current_coord |-> NoCoord,
     next_coord |-> NoCoord, interp_num |-> 0, position_num |-> <<0, 0>>,
     direction |-> direction, sprite_index |-> 0, used_fallback |-> FALSE]

\* the body of "for (run_idx, run) in loaded_runs.iter().enumerate()" for one
\* run: what the frame does with it and the direction it is left with
run_in_frame(args, meta, run, offset, chunk_start, chunk_end, frame, direction) ==
    LET den == progress_den(args)
        progress == progress_num(args, frame, offset)
        coord_index == progress \div den
        total_coords == meta.coord_count
        local_coord_index == coord_index - chunk_start
        next_index == Min(coord_index + 1, total_coords - 1)
        in_window == next_index < chunk_end
        local_next_index == IF in_window THEN next_index - chunk_start
                            ELSE local_coord_index
        interpolation_t == progress % den
    IN IF coord_index >= total_coords THEN Skipped("finished", coord_index, direction)
       ELSE IF coord_index < chunk_start \/ coord_index >= chunk_end
       THEN Skipped("not_loaded", coord_index, direction)
       ELSE IF local_coord_index >= Len(run.coords)
       THEN Skipped("short", coord_index, direction)
       ELSE
       LET current_coord == run.coords[local_coord_index + 1]
           next_coord == run.coords[local_next_index + 1]
           current_pos == convert_coords(current_coord)
           next_pos == convert_coords(next_coord)
           pixel_dx == Abs(next_pos[1] - current_pos[1])
           pixel_dy == Abs(next_pos[2] - current_pos[2])
           pixel_distance == pixel_dx + pixel_dy
           should_interpolate == should_interpolate_3_tiles(pixel_distance)
           interp_t == IF should_interpolate THEN interpolation_t ELSE 0
           dx == next_pos[1] - current_pos[1]
           dy == next_pos[2] - current_pos[2]
           dir == direction_after(dx, dy, direction)
           are_we_biking_on_route_17 == current_coord[3] = 28 \/ next_coord[3] = 28
       IN IF map_id_missing(current_pos, next_pos)
          THEN [Skipped("invalid_map", coord_index, direction) EXCEPT
                    !.current_coord = current_coord, !.next_coord = next_coord,
                    !.used_fallback = ~in_window]
          ELSE [status |-> "drawn",
                coord_index |-> coord_index,
                current_coord |-> current_coord,
                next_coord |-> next_coord,
                interp_num |-> interp_t,
                position_num |-> <<current_pos[1] * den + dx * interp_t - 8 * den,
                                   current_pos[2] * den + dy * interp_t - 8 * den>>,
                direction |-> dir,
                sprite_index |-> IF are_we_biking_on_route_17 THEN 1
                                 ELSE Min(run.sprite_id, 54),
                used_fallback |-> ~in_window]

PlayInit ==
    /\ play_pc = "start"
    /\ play_args \in PlayArgSet
    /\ \E rs \in PlayFiles : play_file = concat_records(rs, 1, max_coords_per_run)
    /\ metadata = <<>>
    /\ run_offsets = <<>>
    /\ frame_number = 0
    /\ total_frames = 0
    /\ current_chunk_idx = -1
    /\ loaded_runs = <<>>
    /\ loaded_chunk_start = 0
    /\ loaded_chunk_end = 0
    /\ run_directions = <<>>
    /\ frame_out = <<>>
    /\ chunk_loads = <<>>
    /\ render_target = -1
    /\ pixels = -1
    /\ encoder_frames = <<>>
    /\ encoder_finished = FALSE

\* run() up to the frame loop: the metadata scan, the frame count, the
\* directions and the random offsets
Prepare ==
    /\ play_pc = "start"
    /\ LET scanned == load_compact_runs_metadata(play_file)
           md == scanned.metadata
       IN /\ scanned.ok
          /\ metadata' = md
          /\ IF md = <<>>
             THEN /\ play_pc' = "done"
                  /\ total_frames' = 0
                  /\ run_offsets' = <<>>
                  /\ run_directions' = <<>>
             ELSE IF division_panics(play_args)
             THEN /\ play_pc' = "panicked"
                  /\ total_frames' = 0
                  /\ run_offsets' = <<>>
                  /\ run_directions' = <<>>
             ELSE IF play_args.start_step >= max_coords_of(md)
             THEN /\ play_pc' = "done"
                  /\ total_frames' = 0
                  /\ run_offsets' = <<>>
                  /\ run_directions' = <<>>
             ELSE /\ play_pc' = "frame"
                  /\ total_frames' = total_frames_of(play_args, md)
                  /\ run_offsets' \in [1..Len(md) -> 0..(PhaseDen - 1)]
                  /\ run_directions' = [k \in 1..Len(md) |-> "Down"]
    /\ UNCHANGED <<play_args, play_file, frame_number, current_chunk_idx, loaded_runs,
                   loaded_chunk_start, loaded_chunk_end, frame_out, chunk_loads, encVars>>

\* one iteration of "for frame_number in 0..total_frames", up to the batch of
\* sprite instances: the reload of the window and the loop over the runs
RenderFrame ==
    /\ play_pc = "frame"
    /\ frame_number < total_frames
    /\ LET needed == needed_chunk_idx(play_args, metadata, frame_number)
           reload == current_chunk_idx # needed
           chunk_start == IF reload THEN chunk_start_of(metadata, needed)
                          ELSE loaded_chunk_start
           chunk_end == IF reload THEN chunk_end_of(metadata, needed) ELSE loaded_chunk_end
           loaded == IF reload
                     THEN load_chunk_coords(play_file, metadata, chunk_start, chunk_end).runs
                     ELSE loaded_runs
           out == [k \in 1..Len(loaded) |->
                      run_in_frame(play_args, metadata[k], loaded[k], run_offsets[k],
                                   chunk_start, chunk_end, frame_number, run_directions[k])]
       IN /\ reload => load_chunk_coords(play_file, metadata, chunk_start, chunk_end).ok
          /\ current_chunk_idx' = needed
          /\ loaded_chunk_start' = chunk_start
          /\ loaded_chunk_end' = chunk_end
          /\ loaded_runs' = loaded
          /\ frame_out' = out
          /\ chunk_loads' = IF reload THEN Append(chunk_loads, needed) ELSE chunk_loads
          /\ run_directions' = [k \in 1..Len(loaded) |-> out[k].direction]
    /\ play_pc' = "render"
    /\ UNCHANGED <<play_args, play_file, metadata, run_offsets, frame_number, total_frames,
                   encVars>>

\* the texture the read-back returns when it runs ahead of the draw
pixels_before_render(target, previous) == previous

\* gpu.read_pixels(): the texture as renderer.render left it
pixels_after_render(target, previous) == target

\* renderer.render(..., &sprite_instances): the batch is drawn into the texture
Render ==
    /\ play_pc = "render"
    /\ render_target' = frame_number
    /\ play_pc' = "read"
    /\ UNCHANGED <<play_args, play_file, metadata, run_offsets, frame_number, total_frames,
                   current_chunk_idx, loaded_runs, loaded_chunk_start, loaded_chunk_end,
                   run_directions, frame_out, chunk_loads, pixels, encoder_frames, encoder_finished>>

\* gpu.read_pixels().await
ReadPixels ==
    /\ play_pc = "read"
    /\ pixels' = pixels_after_render(render_target, pixels)
    /\ play_pc' = "encode"
    /\ UNCHANGED <<play_args, play_file, metadata, run_offsets, frame_number, total_frames,
                   current_chunk_idx, loaded_runs, loaded_chunk_start, loaded_chunk_end,
                   run_directions, frame_out, chunk_loads, render_target, encoder_frames,
                   encoder_finished>>

\* encoder.write_frame(&pixels), and the end of the iteration
WriteFrame ==
    /\ play_pc = "encode"
    /\ encoder_frames' = Append(encoder_frames, pixels)
    /\ frame_number' = frame_number + 1
    /\ play_pc' = "frame"
    /\ UNCHANGED <<play_args, play_file, metadata, run_offsets, total_frames,
                   current_chunk_idx, loaded_runs, loaded_chunk_start, loaded_chunk_end,
                   run_directions, frame_out, chunk_loads, render_target, pixels, encoder_finished>>

\* render, read_pixels or write_frame returns an error: "?" ends the job, the
\* encoder is dropped without finish
FrameStepFails ==
    /\ play_pc \in {"render", "read", "encode"}
    /\ play_pc' = "failed"
    /\ UNCHANGED <<play_args, play_file, metadata, run_offsets, frame_number, total_frames,
                   current_chunk_idx, loaded_runs, loaded_chunk_start, loaded_chunk_end,
                   run_directions, frame_out, chunk_loads, encVars>>

\* the loop is over: encoder.finish()
FinishVideo ==
    /\ play_pc = "frame"
    /\ frame_number = total_frames
    /\ play_pc' = "done"
    /\ encoder_finished' = TRUE
    /\ UNCHANGED <<play_args, play_file, metadata, run_offsets, frame_number, total_frames,
                   current_chunk_idx, loaded_runs, loaded_chunk_start, loaded_chunk_end,
                   run_directions, frame_out, chunk_loads, render_target, pixels, encoder_frames>>

(***************************************************************************)
(* The sprite of one sequence at one time: AnimationInterpolator, and the  *)
(* loop body of the windowed player on the same coordinates.  A time is a  *)
(* frame number at a rate of AnimRates; an interpolation fraction is        *)
(* a numerator over the interval.                                          *)
(***************************************************************************)
MaxAnimLen == 2
MaxAnimFrame == 8
\* frames per second at which every frame time is a whole number of ms
AnimRates == {8}
AnimIntervals == {250, 500}
AnimOffsets == {0, 2}

AnimCoords ==
    {<<0, 0, 1>>, <<1, 0, 1>>, <<10, 0, 1>>, <<0, 1, 1>>, <<3, 0, 1>>, <<1, 1, 1>>,
     <<0, 0, 255>>}

AnimSeqs == UNION {[1..n -> AnimCoords] : n \in 0..MaxAnimLen}

\* AnimationInterpolator::frame_to_time
frame_to_time(frame_number_, fps) == (frame_number_ * 1000) \div fps

NoState ==
    [some |-> FALSE, current_frame_index |-> 0, next_frame_index |-> 0, interpolation_t |-> 0]

\* the next index without the clamp to the last sample
next_frame_index_unclamped(current_frame_index, len) == current_frame_index + 1

\* (current_frame_index + 1).min(sequence.frames.len() - 1)
next_frame_index_of(current_frame_index, len) == Min(current_frame_index + 1, len - 1)

\* AnimationInterpolator::get_animation_state; interpolation_t counts
\* 1 / interval_ms
get_animation_state(len, time_ms, interval_ms) ==
    LET current_frame_index == time_ms \div interval_ms
    IN IF len = 0 THEN NoState
       ELSE IF current_frame_index >= len THEN NoState
       ELSE [some |-> TRUE,
             current_frame_index |-> current_frame_index,
             next_frame_index |-> next_frame_index_of(current_frame_index, len),
             interpolation_t |-> time_ms % interval_ms]

\* Direction::from_movement
from_movement(dx, dy) ==
    IF Abs(dx) > Abs(dy)
    THEN (IF dx > 0 THEN "Right" ELSE "Left")
    ELSE (IF dy > 0 THEN "Down" ELSE "Up")

NoInstance == [some |-> FALSE, position |-> <<0, 0>>, direction |-> "Down"]

\* interpolation applied whatever the distance
should_interpolate_always(pixel_dx, pixel_dy) == TRUE

\* pixel_dx.max(pixel_dy) <= 16.0
should_interpolate_tile(pixel_dx, pixel_dy) == Max(pixel_dx, pixel_dy) <= 16

\* AnimationInterpolator::interpolate_sprite; position counts 1 / interval_ms
\* of a pixel
interpolate_sprite(seq, state, interval_ms) ==
    IF state.current_frame_index >= Len(seq) THEN NoInstance
    ELSE LET current_pos == convert_coords(seq[state.current_frame_index + 1])
             next_pos == convert_coords(seq[state.next_frame_index + 1])
             pixel_dx == Abs(next_pos[1] - current_pos[1])
             pixel_dy == Abs(next_pos[2] - current_pos[2])
             interpolation_t == IF should_interpolate_tile(pixel_dx, pixel_dy)
                                THEN state.interpolation_t ELSE 0
             dx == next_pos[1] - current_pos[1]
             dy == next_pos[2] - current_pos[2]
         IN [some |-> TRUE,
             position |-> <<current_pos[1] * interval_ms + dx * interpolation_t,
                            current_pos[2] * interval_ms + dy * interpolation_t>>,
             direction |-> from_movement(dx, dy)]

\* the arguments of the windowed player that play the sequence at the same
\* times
AnimPlayArgs ==
    [fps |-> anim_args.fps, interval_ms |-> anim_args.interval_ms, speed_multiplier |-> 1,
     start_step |-> 0, max_frames |-> -1]

AnimInit ==
    /\ anim_pc = "start"
    /\ anim_args \in [interval_ms : AnimIntervals, fps : AnimRates, frame : 0..MaxAnimFrame,
                      offset : AnimOffsets]
    /\ anim_seq \in AnimSeqs
    /\ anim_state = NoState
    /\ anim_instance = NoInstance
    /\ anim_windowed = Skipped("finished", 0, "Down")

\* interpolator.get_animation_state(sequence, time_ms)
GetAnimationState ==
    /\ anim_pc = "start"
    /\ anim_state' = get_animation_state(Len(anim_seq),
                                         frame_to_time(anim_args.frame, anim_args.fps),
                                         anim_args.interval_ms)
    /\ anim_pc' = "state"
    /\ UNCHANGED <<anim_args, anim_seq, anim_instance, anim_windowed>>

\* if let Some(state): interpolator.interpolate_sprite(sequence, &state)
InterpolateSprite ==
    /\ anim_pc = "state"
    /\ anim_instance' = IF anim_state.some
                        THEN interpolate_sprite(anim_seq, anim_state, anim_args.interval_ms)
                        ELSE NoInstance
    /\ anim_pc' = "sprite"
    /\ UNCHANGED <<anim_args, anim_seq, anim_state, anim_windowed>>

\* the loop body of the windowed player on the same run, every coordinate
\* of it resident
WindowedSprite ==
    /\ anim_pc = "sprite"
    /\ anim_windowed' = run_in_frame(AnimPlayArgs, [coord_count |-> Len(anim_seq)],
                                     [sprite_id |-> 7, coords |-> anim_seq],
                                     anim_args.offset, 0, Len(anim_seq), anim_args.frame,
                                     "Down")
    /\ anim_pc' = "done"
    /\ UNCHANGED <<anim_args, anim_seq, anim_state, anim_instance>>

(***************************************************************************)
(* Calls of the coordinate mapper                                          *)
(***************************************************************************)
MaxMapCalls == 2

\* the table of tests::test_coordinate_conversion
TestRegions == [id \in {1} |-> <<500, 600>>]

NoRegions == [id \in {} |-> <<0, 0>>]

MapTables == {Regions, TestRegions, NoRegions}

MapInputs == {<<x, y, id>> : x \in {0, 10, 255}, y \in {0, 20}, id \in {-1, 0, 1, 2, 255}}

MapInit ==
    /\ map_pc = "call"
    /\ map_regions \in MapTables
    /\ map_calls = <<>>

\* mapper.convert_coords(&coords)
ConvertCoords ==
    /\ map_pc = "call"
    /\ Len(map_calls) < MaxMapCalls
    /\ \E coords \in MapInputs :
        map_calls' = Append(map_calls, [coords |-> coords,
                                        result |-> convert_coords_of(map_regions, coords)])
    /\ UNCHANGED <<map_pc, map_regions>>

(***************************************************************************)
(* Chunks of the coordinate index range [0, max_coords)                    *)
(***************************************************************************)
MaxCoords == 24

PartInit ==
    /\ part_pc = "start"
    /\ part_max \in 1..MaxCoords
    /\ part_size = 0
    /\ part_num = 0
    /\ part_index = 0
    /\ part_needed = -1

\* "Calculate chunk size (1/8 of max coords)"
ComputeChunks ==
    /\ part_pc = "start"
    /\ part_size' = chunk_size_of(part_max)
    /\ part_num' = num_chunks_of(part_max)
    /\ part_pc' = "frame"
    /\ UNCHANGED <<part_max, part_index, part_needed>>

\* "Determine which chunk this falls into", for the median index of a frame
LocateChunk ==
    /\ part_pc = "frame"
    /\ \E median_index \in 0..part_max :
           /\ part_index' = median_index
           /\ part_needed' = needed_chunk_of(median_index, part_max)
    /\ UNCHANGED <<part_pc, part_max, part_size, part_num>>

(***************************************************************************)
(* Extraction job: run file, progress ledger, restart after a crash        *)
(***************************************************************************)
NumFiles == 2
MaxStarts == 3

\* parquet_files after the sort, named by their rank
parquet_files == [i \in 1..NumFiles |-> i]

ExtArgs == [tool |-> "extract", min_duration_secs |-> 60, pallet_start_only |-> FALSE]

Fr(ts, user, coords) ==
    [timestamp |-> ts, user |-> user, env_id |-> "e1", sprite_id |-> 7,
     coords |-> coords, path_index |-> 0]

\* what read_file returns for each input, in file order
FileFrames(f) ==
    CASE f % 3 = 1 -> <<Fr(60, "u2", <<5, 5, 12>>), Fr(0, "u2", <<5, 5, 12>>),
                        Fr(120, "u1", <<5, 5, 51>>), Fr(60, "u1", <<5, 6, 40>>),
                        Fr(0, "u1", <<5, 5, 40>>)>>
      [] f % 3 = 2 -> <<>>
      [] OTHER -> <<Fr(0, "u1", <<5, 5, 12>>), Fr(60, "u1", <<5, 5, 1>>)>>

\* the records the loop body writes for one input, in order
file_records(f) ==
    LET fr == sort_frames(FileFrames(f))
        spans == scan_file(fr, 0, ExtArgs, <<>>)
    IN [k \in 1..Len(spans) |->
           [src |-> f,
            bytes |-> write_compact_run(Frame(fr, spans[k].first).sprite_id,
                                        SubSeq(fr, spans[k].first + 1, spans[k].last + 1),
                                        max_coords_per_run)]]

\* the skip test made on the full path of the input: the ledger holds file
\* names, so no lookup succeeds
already_processed_by_path(f, processed) == FALSE

\* processed_files.contains(&file_name)
already_processed(f, processed) == f \in processed

ExtRunning == ext_pc \in {"loop", "mark", "flush_output"}

ExtInit ==
    /\ ext_pc = "start"
    /\ file_idx = 0
    /\ processed_files = {}
    /\ output_buf = <<>>
    /\ output_disk = <<>>
    /\ progress_buf = <<>>
    /\ progress_disk = <<>>
    /\ ext_runs = 0
    /\ ext_start = [output |-> <<>>, progress |-> <<>>]
    /\ read_failed = {}

\* the tool starts: it loads the ledger and opens both files for append
Startup ==
    /\ ext_pc \in {"start", "exited", "crashed"}
    /\ ext_runs < MaxStarts
    /\ ext_runs' = ext_runs + 1
    /\ processed_files' = Range(progress_disk)
    /\ ext_start' = [output |-> output_disk, progress |-> progress_disk]
    /\ file_idx' = 0
    /\ output_buf' = <<>>
    /\ progress_buf' = <<>>
    /\ read_failed' = {}
    /\ ext_pc' = "loop"
    /\ UNCHANGED <<output_disk, progress_disk>>

\* "Skip if already processed"
SkipProcessed ==
    /\ ext_pc = "loop"
    /\ file_idx < Len(parquet_files)
    /\ already_processed(parquet_files[file_idx + 1], processed_files)
    /\ file_idx' = file_idx + 1
    /\ UNCHANGED <<ext_pc, processed_files, output_buf, output_disk, progress_buf,
                   progress_disk, ext_runs, ext_start, read_failed>>

\* the ledger after the Err arm of read_file, had it marked the input
ledger_after_read_error_marked(f, ledger) == ledger \o <<f>>

\* the ledger after the Err arm of read_file: log::error! and continue
ledger_after_read_error(f, ledger) == ledger

\* read_file fails: the input is logged and skipped
ReadFails ==
    /\ ext_pc = "loop"
    /\ file_idx < Len(parquet_files)
    /\ ~already_processed(parquet_files[file_idx + 1], processed_files)
    /\ progress_disk' = ledger_after_read_error(parquet_files[file_idx + 1], progress_disk)
    /\ read_failed' = read_failed \cup {parquet_files[file_idx + 1]}
    /\ file_idx' = file_idx + 1
    /\ UNCHANGED <<ext_pc, processed_files, output_buf, output_disk, progress_buf,
                   ext_runs, ext_start>>

\* the input holds no frames: it is marked processed at once
EmptyFile ==
    /\ ext_pc = "loop"
    /\ file_idx < Len(parquet_files)
    /\ ~already_processed(parquet_files[file_idx + 1], processed_files)
    /\ FileFrames(parquet_files[file_idx + 1]) = <<>>
    /\ progress_disk' = progress_disk \o progress_buf \o <<parquet_files[file_idx + 1]>>
    /\ progress_buf' = <<>>
    /\ file_idx' = file_idx + 1
    /\ UNCHANGED <<ext_pc, processed_files, output_buf, output_disk, ext_runs, ext_start, read_failed>>

\* sort, scan and write_compact_run for every run of the input
ExtractFile ==
    /\ ext_pc = "loop"
    /\ file_idx < Len(parquet_files)
    /\ ~already_processed(parquet_files[file_idx + 1], processed_files)
    /\ FileFrames(parquet_files[file_idx + 1]) # <<>>
    /\ output_buf' = output_buf \o file_records(parquet_files[file_idx + 1])
    /\ ext_pc' = "mark"
    /\ UNCHANGED <<file_idx, processed_files, output_disk, progress_buf, progress_disk,
                   ext_runs, ext_start, read_failed>>

\* "Mark file as processed": writeln!(progress_writer) and progress_writer.flush()
MarkProcessed ==
    /\ ext_pc = "mark"
    /\ progress_disk' = progress_disk \o progress_buf \o <<parquet_files[file_idx + 1]>>
    /\ progress_buf' = <<>>
    /\ ext_pc' = "flush_output"
    /\ UNCHANGED <<file_idx, processed_files, output_buf, output_disk, ext_runs, ext_start, read_failed>>

\* "Periodic flush of output": output_file.flush()
FlushOutput ==
    /\ ext_pc = "flush_output"
    /\ output_disk' = output_disk \o output_buf
    /\ output_buf' = <<>>
    /\ file_idx' = file_idx + 1
    /\ ext_pc' = "loop"
    /\ UNCHANGED <<processed_files, progress_buf, progress_disk, ext_runs, ext_start, read_failed>>

\* after the loop: both writers are flushed and the tool exits
Finish ==
    /\ ext_pc = "loop"
    /\ file_idx = Len(parquet_files)
    /\ output_disk' = output_disk \o output_buf
    /\ output_buf' = <<>>
    /\ progress_disk' = progress_disk \o progress_buf
    /\ progress_buf' = <<>>
    /\ ext_pc' = "exited"
    /\ UNCHANGED <<file_idx, processed_files, ext_runs, ext_start, read_failed>>

\* the process dies: what its BufWriters still hold is lost
Crash ==
    /\ ExtRunning
    /\ output_buf' = <<>>
    /\ progress_buf' = <<>>
    /\ ext_pc' = "crashed"
    /\ UNCHANGED <<file_idx, processed_files, output_disk, progress_disk, ext_runs,
                   ext_start, read_failed>>

(***************************************************************************)
(* Grouping of frames into sequences (ParquetReader::group_into_sequences  *)
(* and the first pass of analyze_runs).  A string is the sequence of its   *)
(* characters.                                                             *)
(***************************************************************************)
MaxGroupFrames == 3
GrpUsers == {<<"a">>, <<"a", "-", "b">>}
GrpEnvs == {<<"c">>, <<"b", "-", "c">>}
GrpTimes == {0, 1}
GrpTools == {"group_into_sequences", "analyze_runs"}

\* format!("{}-{}", frame.user, frame.env_id)
format_key(user, env_id) == user \o <<"-">> \o env_id

\* the frames of a file, row by row
GrpInputs ==
    UNION {{[i \in 1..n |-> [user |-> f[i][1], env_id |-> f[i][2], timestamp |-> f[i][3],
                            path_index |-> 0, row |-> i]] :
               f \in [1..n -> GrpUsers \X GrpEnvs \X GrpTimes]} :
           n \in 0..MaxGroupFrames}

RECURSIVE insert_by_key(_, _)
\* f put behind the frames whose (timestamp, path_index) is not greater
insert_by_key(sorted, f) ==
    IF sorted = <<>> THEN <<f>>
    ELSE LET last == sorted[Len(sorted)]
         IN IF last.timestamp < f.timestamp
               \/ (last.timestamp = f.timestamp /\ last.path_index <= f.path_index)
            THEN Append(sorted, f)
            ELSE Append(insert_by_key(SubSeq(sorted, 1, Len(sorted) - 1), f), last)

RECURSIVE sort_by_key(_, _)
\* frames.sort_by_key(|f| (f.timestamp, f.path_index)): a stable sort
sort_by_key(fs, n) ==
    IF n = 0 THEN <<>> ELSE insert_by_key(sort_by_key(fs, n - 1), fs[n])

\* the sequence a tool makes of a map entry: group_into_sequences keeps the
\* user and env_id of the frame that created the entry, analyze_runs takes
\* those of the first frame after the sort
sequence_of(tool, entry) ==
    LET sorted == sort_by_key(entry.frames, Len(entry.frames))
    IN [user |-> IF tool = "analyze_runs" THEN sorted[1].user ELSE entry.user,
        env_id |-> IF tool = "analyze_runs" THEN sorted[1].env_id ELSE entry.env_id,
        frames |-> sorted]

GrpInit ==
    /\ grp_pc = "group"
    /\ grp_tool \in GrpTools
    /\ grp_frames \in GrpInputs
    /\ grp_next = 0
    /\ sequences = <<>>
    /\ grp_result = <<>>

\* one iteration of "for frame in frames": the frame is pushed on the entry of
\* its key, which is created when the key is new
GroupFrame ==
    /\ grp_pc = "group"
    /\ grp_next < Len(grp_frames)
    /\ LET frame == grp_frames[grp_next + 1]
           key == format_key(frame.user, frame.env_id)
           entry == IF key \in DOMAIN sequences THEN sequences[key]
                    ELSE [user |-> frame.user, env_id |-> frame.env_id, frames |-> <<>>]
       IN sequences' =
              [k \in DOMAIN sequences \cup {key} |->
                  IF k = key THEN [entry EXCEPT !.frames = Append(@, frame)]
                  ELSE sequences[k]]
    /\ grp_next' = grp_next + 1
    /\ UNCHANGED <<grp_pc, grp_tool, grp_frames, grp_result>>

\* the entries leave the map in an order the map chooses, each sorted
CollectSequences ==
    /\ grp_pc = "group"
    /\ grp_next = Len(grp_frames)
    /\ \E order \in [1..Cardinality(DOMAIN sequences) -> DOMAIN sequences] :
        /\ \A a, b \in DOMAIN order : a # b => order[a] # order[b]
        /\ grp_result' = [n \in DOMAIN order |-> sequence_of(grp_tool, sequences[order[n]])]
    /\ grp_pc' = "done"
    /\ UNCHANGED <<grp_tool, grp_frames, grp_next, sequences>>

(***************************************************************************)
(* Video encoder (ProResEncoder): the RGBA frames it is given and the bytes *)
(* it writes to the two ffmpeg processes.                                  *)
(***************************************************************************)
MaxPipeCalls == 3
PipeSizes == {<<1, 1>>, <<2, 1>>, <<1, 2>>}
PipeSeeds == {1, 2}

\* a frame buffer of len bytes, all different within a frame and between seeds
FrameBytes(seed, len) == [j \in 1..len |-> (seed * 64 + j) % 256]

\* the frame size taken for that of an RGB frame
expected_size_rgb(width, height) == width * height * 3

\* (self.width * self.height * 4) as usize; the sizes used keep the u32 product
\* far from its limit
expected_size(width, height) == width * height * 4

\* the buffers write_frame may be given: of the right size, short or long
PipeFrames(size) ==
    {FrameBytes(seed, len) :
        seed \in PipeSeeds,
        len \in {expected_size(size[1], size[2]) - 4, expected_size(size[1], size[2]),
                 expected_size(size[1], size[2]) + 1}}

\* what the pipes do with a write_all: which of the two fails, if any, and how
\* many bytes the failing one took before it failed
PipeIo ==
    {[fails |-> "none", taken |-> 0], [fails |-> "rgb", taken |-> 0],
     [fails |-> "rgb", taken |-> 1], [fails |-> "mask", taken |-> 0]}

\* rgb_buffer after "for i in 0..pixel_count"
rgb_buffer_of(frame_data, pixel_count) ==
    [n \in 1..(pixel_count * 3) |-> frame_data[((n - 1) \div 3) * 4 + ((n - 1) % 3) + 1]]

\* mask_buffer after "for i in 0..pixel_count"
mask_buffer_of(frame_data, pixel_count) ==
    [i \in 1..pixel_count |-> frame_data[(i - 1) * 4 + 3 + 1]]

\* ProResEncoder::write_frame on the streams rgb and mask: what it returns and
\* what the streams hold afterwards
write_frame(size, frame_data, rgb, mask, io) ==
    LET pixel_count == size[1] * size[2]
        rgb_buffer == rgb_buffer_of(frame_data, pixel_count)
        mask_buffer == mask_buffer_of(frame_data, pixel_count)
    IN IF Len(frame_data) # expected_size(size[1], size[2])
       THEN [result |-> "invalid_frame_size", rgb |-> rgb, mask |-> mask]
       ELSE IF io.fails = "rgb"
       THEN [result |-> "rgb_write_failed",
             rgb |-> rgb \o SubSeq(rgb_buffer, 1, io.taken), mask |-> mask]
       ELSE IF io.fails = "mask"
       THEN [result |-> "mask_write_failed",
             rgb |-> rgb \o rgb_buffer, mask |-> mask \o SubSeq(mask_buffer, 1, io.taken)]
       ELSE [result |-> "ok", rgb |-> rgb \o rgb_buffer, mask |-> mask \o mask_buffer]

\* ProResEncoder::new
PipeInit ==
    /\ pipe_pc = "open"
    /\ pipe_size \in PipeSizes
    /\ rgb_stream = <<>>
    /\ mask_stream = <<>>
    /\ pipe_calls = <<>>

\* a call of write_frame
EncoderWriteFrame ==
    /\ pipe_pc = "open"
    /\ Len(pipe_calls) < MaxPipeCalls
    /\ \E frame_data \in PipeFrames(pipe_size), io \in PipeIo :
        LET r == write_frame(pipe_size, frame_data, rgb_stream, mask_stream, io)
        IN /\ rgb_stream' = r.rgb
           /\ mask_stream' = r.mask
           /\ pipe_calls' = Append(pipe_calls,
                                   [frame_data |-> frame_data, result |-> r.result,
                                    rgb_before |-> Len(rgb_stream),
                                    mask_before |-> Len(mask_stream),
                                    rgb_after |-> Len(r.rgb), mask_after |-> Len(r.mask)])
    /\ UNCHANGED <<pipe_pc, pipe_size>>

\* ProResEncoder::finish: both stdins are closed and both processes waited
\* for; the encoder is consumed, whatever the processes return
EncoderFinish ==
    /\ pipe_pc = "open"
    /\ pipe_pc' \in {"finished", "finish_failed"}
    /\ UNCHANGED <<pipe_size, rgb_stream, mask_stream, pipe_calls>>

(***************************************************************************)
(* Idle values of the parts a specification does not exercise              *)
(***************************************************************************)
PipeIdle ==
    /\ pipe_pc = "idle"
    /\ pipe_size = <<0, 0>>
    /\ rgb_stream = <<>>
    /\ mask_stream = <<>>
    /\ pipe_calls = <<>>

GrpIdle ==
    /\ grp_pc = "idle"
    /\ grp_tool = "none"
    /\ grp_frames = <<>>
    /\ grp_next = 0
    /\ sequences = <<>>
    /\ grp_result = <<>>

ExtIdle ==
    /\ ext_pc = "idle"
    /\ file_idx = 0
    /\ processed_files = {}
    /\ output_buf = <<>>
    /\ output_disk = <<>>
    /\ progress_buf = <<>>
    /\ progress_disk = <<>>
    /\ ext_runs = 0
    /\ ext_start = [output |-> <<>>, progress |-> <<>>]
    /\ read_failed = {}

CodIdle ==
    /\ cod_pc = "idle"
    /\ cod_runs = <<>>
    /\ cod_max = 0
    /\ cod_file = <<>>
    /\ cod_cut = 0
    /\ cod_meta = [ok |-> TRUE, metadata |-> <<>>]
    /\ cod_loaded = [ok |-> TRUE, runs |-> <<>>, reads |-> <<>>]
    /\ cod_chunk = <<0, 0>>

WideIdle ==
    /\ wide_pc = "idle"
    /\ wide_len = 0
    /\ wide_max = 0
    /\ wide_declared = 0
    /\ wide_written = 0
    /\ wide_decoded = 0

PlayIdle ==
    /\ play_pc = "idle"
    /\ play_args = [fps |-> 0, interval_ms |-> 0, speed_multiplier |-> 0, start_step |-> 0,
                    max_frames |-> -1]
    /\ play_file = <<>>
    /\ metadata = <<>>
    /\ run_offsets = <<>>
    /\ frame_number = 0
    /\ total_frames = 0
    /\ current_chunk_idx = -1
    /\ loaded_runs = <<>>
    /\ loaded_chunk_start = 0
    /\ loaded_chunk_end = 0
    /\ run_directions = <<>>
    /\ frame_out = <<>>
    /\ chunk_loads = <<>>
    /\ render_target = -1
    /\ pixels = -1
    /\ encoder_frames = <<>>
    /\ encoder_finished = FALSE

AnimIdle ==
    /\ anim_pc = "idle"
    /\ anim_args = [interval_ms |-> 0, fps |-> 0, frame |-> 0, offset |-> 0]
    /\ anim_seq = <<>>
    /\ anim_state = NoState
    /\ anim_instance = NoInstance
    /\ anim_windowed = Skipped("finished", 0, "Down")

PartIdle ==
    /\ part_pc = "idle"
    /\ part_max = 0
    /\ part_size = 0
    /\ part_num = 0
    /\ part_index = 0
    /\ part_needed = -1

MapIdle ==
    /\ map_pc = "idle"
    /\ map_regions = Regions
    /\ map_calls = <<>>

(***************************************************************************)
(* Specification of the run segmenter                                      *)
(***************************************************************************)
InitSeg == SegInit /\ ExtIdle /\ CodIdle /\ WideIdle /\ PlayIdle /\ AnimIdle /\ MapIdle /\ PartIdle
    /\ PipeIdle /\ GrpIdle

NextSeg ==
    /\ (OpenGroup \/ ScanPair \/ CloseGroup \/ EndOfFrames)
    /\ UNCHANGED <<extVars, codVars, wideVars, playVars, animVars, mapVars, partVars,
                 pipeVars, grpVars>>

SpecSeg == InitSeg /\ [][NextSeg]_vars

InitStrict ==
    StrictInit /\ ExtIdle /\ CodIdle /\ WideIdle /\ PlayIdle /\ AnimIdle /\ MapIdle /\ PartIdle
    /\ PipeIdle /\ GrpIdle

SpecStrict == InitStrict /\ [][NextSeg]_vars

(***************************************************************************)
(* Claims about the run segmenter                                          *)
(***************************************************************************)
Timestamp(i) == frames[i + 1].timestamp

\* C3: every run emitted by the segmenter, whether closed by a split or
\* finalized at the end of its group, lasts at least min_duration:
\* last_timestamp - first_timestamp >= min_duration.
C3_EmittedRunsMeetMinDuration ==
    \A k \in 1..Len(runs) :
        Timestamp(runs[k].last) - Timestamp(runs[k].first) >= seg_args.min_duration_secs

\* a finished scan of extract_compact_runs that wrote one run at a split and
\* another one at the end of a group
C3_Witness ==
    /\ seg_pc = "done"
    /\ seg_args.tool = "extract"
    /\ \E k \in 1..Len(split_log) : split_log[k].written
    /\ \E k \in 1..Len(runs) :
          \A n \in 1..Len(split_log) :
              split_log[n].split => split_log[n].j # runs[k].last + 1

\* C4: two consecutive samples of one group that are at least 2 minutes apart
\* are always split, whatever the regions, coordinates, progress index and
\* flags: the pair is logged as a split and no emitted run contains both.
C4_GapAlwaysSplits ==
    /\ \A k \in 1..Len(split_log) :
          Timestamp(split_log[k].j) - Timestamp(split_log[k].j - 1) >= 120
              => split_log[k].split
    /\ \A k \in 1..Len(runs) :
          \A j \in (runs[k].first + 1)..runs[k].last :
              Timestamp(j) - Timestamp(j - 1) < 120

\* a pair exactly 2 minutes apart in one region, which no other rule splits,
\* with the span before it long enough to be written
C4_Witness ==
    /\ seg_args.tool = "extract"
    /\ ~seg_args.pallet_start_only
    /\ \E k \in 1..Len(split_log) :
          LET j == split_log[k].j
          IN /\ Timestamp(j) - Timestamp(j - 1) = 120
             /\ frames[j + 1].coords = frames[j].coords
             /\ frames[j + 1].coords[3] = 12
             /\ split_log[k].split

(***************************************************************************)
(* Specification of the extraction job                                     *)
(***************************************************************************)
InitExt == ExtInit /\ SegIdle /\ CodIdle /\ WideIdle /\ PlayIdle /\ AnimIdle /\ MapIdle /\ PartIdle
    /\ PipeIdle /\ GrpIdle

NextExt ==
    /\ \/ Startup
       \/ SkipProcessed
       \/ ReadFails
       \/ EmptyFile
       \/ ExtractFile
       \/ MarkProcessed
       \/ FlushOutput
       \/ Finish
       \/ Crash
    /\ UNCHANGED <<segVars, codVars, wideVars, playVars, animVars, mapVars, partVars,
                 pipeVars, grpVars>>

SpecExt == InitExt /\ [][NextExt]_vars

\* C1: the durable ledger never lists an input whose run records are not all
\* durably in the run file (the ledger entry is appended and flushed only
\* after the input's records were written and flushed).
C1_LedgerOnlyAfterRecordsDurable ==
    \A k \in 1..Len(progress_disk) :
        \A r \in Range(file_records(progress_disk[k])) : r \in Range(output_disk)

\* C2: a run of the tool that starts with every input listed in the ledger
\* appends nothing to the run file and leaves the ledger as it found it.
AllListedAtStart == \A i \in 1..Len(parquet_files) : parquet_files[i] \in processed_files

C2_RerunIsIdempotent ==
    (ext_pc # "start" /\ AllListedAtStart)
        => /\ output_disk = ext_start.output
           /\ output_buf = <<>>
           /\ progress_disk = ext_start.progress
           /\ progress_buf = <<>>
           /\ Len(progress_disk) = Len(ext_start.progress)

\* a second run of the tool that found every input listed and a run file with
\* records in it, and ran to its end
C2_Witness ==
    /\ ext_pc = "exited"
    /\ ext_runs >= 2
    /\ AllListedAtStart
    /\ ext_start.output # <<>>
    /\ file_idx = Len(parquet_files)

(***************************************************************************)
(* Specifications of the codec                                             *)
(***************************************************************************)
InitCodec == CodInit /\ SegIdle /\ ExtIdle /\ WideIdle /\ PlayIdle /\ AnimIdle /\ MapIdle /\ PartIdle
    /\ PipeIdle /\ GrpIdle

NextCodec ==
    /\ (WriteRuns \/ Truncate \/ ScanMetadata \/ LoadChunk)
    /\ UNCHANGED <<segVars, extVars, wideVars, playVars, animVars, mapVars, partVars,
                 pipeVars, grpVars>>

SpecCodec == InitCodec /\ [][NextCodec]_vars

InitWide == WideInit /\ SegIdle /\ ExtIdle /\ CodIdle /\ PlayIdle /\ AnimIdle /\ MapIdle /\ PartIdle
    /\ PipeIdle /\ GrpIdle

NextWide ==
    /\ (WriteWide \/ DecodeWide)
    /\ UNCHANGED <<segVars, extVars, codVars, playVars, animVars, mapVars, partVars,
                 pipeVars, grpVars>>

SpecWide == InitWide /\ [][NextWide]_vars

(***************************************************************************)
(* Claims about the codec                                                  *)
(***************************************************************************)
InByte(v) == v \in 0..255

\* what the format keeps of a coordinate
ExpectedCoord(c) == IF InByte(c[1]) /\ InByte(c[2]) /\ InByte(c[3]) THEN c ELSE <<0, 0, 255>>

\* how many coordinates of run k the format keeps
ExpectedCount(k) ==
    IF Len(cod_runs[k].fr) < cod_max THEN Len(cod_runs[k].fr) ELSE cod_max

RECURSIVE SumCounts(_)
SumCounts(k) == IF k = 0 THEN 0 ELSE SumCounts(k - 1) + ExpectedCount(k)

\* the offset in the file where record k + 1 starts
RecordBoundary(k) == 3 * k + 3 * SumCounts(k)

WholeFileScanned == cod_pc \in {"scanned", "loaded"} /\ cod_cut = Len(cod_file)

\* C5: the 16-bit count a record declares equals the number of coordinates
\* written after it, which is min(run length, max_coords_per_run).
C5_DeclaredCountMatchesWritten ==
    wide_pc # "write"
        => /\ wide_declared = wide_written
           /\ wide_written = (IF wide_len < wide_max THEN wide_len ELSE wide_max)

\* C6: writing a run and loading its full index range gives back the sprite id
\* and min(run length, max_coords_per_run) coordinates, each the original one
\* when its three components fit a byte and (0, 0, 255) otherwise.
C6_RoundTrip ==
    /\ (WholeFileScanned /\ cod_pc = "loaded" /\ cod_chunk[1] = 0
            /\ \A k \in 1..Len(cod_runs) : cod_chunk[2] >= ExpectedCount(k))
        => /\ cod_loaded.ok
           /\ Len(cod_loaded.runs) = Len(cod_runs)
           /\ \A k \in 1..Len(cod_runs) :
                /\ cod_loaded.runs[k].sprite_id = cod_runs[k].sprite_id
                /\ Len(cod_loaded.runs[k].coords) = ExpectedCount(k)
                /\ \A i \in 1..ExpectedCount(k) :
                      cod_loaded.runs[k].coords[i] = ExpectedCoord(cod_runs[k].fr[i].coords)
    /\ wide_pc = "decoded"
        => wide_decoded = (IF wide_len < wide_max THEN wide_len ELSE wide_max)

\* C7: the metadata scan of a well-formed file returns one entry per record,
\* in file order, with the record's sprite id and count and the offset
\* 3 * (records so far, this one included) + 3 * (counts of the earlier records),
\* at which the file holds exactly the record's coordinate bytes.
C7_MetadataMatchesRecords ==
    WholeFileScanned
        => /\ cod_meta.ok
           /\ Len(cod_meta.metadata) = Len(cod_runs)
           /\ \A k \in 1..Len(cod_runs) :
                LET m == cod_meta.metadata[k]
                IN /\ m.sprite_id = cod_runs[k].sprite_id
                   /\ m.coord_count = ExpectedCount(k)
                   /\ m.file_offset = 3 * k + 3 * SumCounts(k - 1)
                   /\ m.file_offset + 3 * m.coord_count <= Len(cod_file)
                   /\ \A i \in 1..m.coord_count :
                         <<cod_file[m.file_offset + 3 * i - 2],
                           cod_file[m.file_offset + 3 * i - 1],
                           cod_file[m.file_offset + 3 * i]>>
                             = ExpectedCoord(cod_runs[k].fr[i].coords)

\* a whole file of three records, the first cut to max_coords_per_run, the
\* second empty, the third shorter than the first
C7_Witness ==
    /\ WholeFileScanned
    /\ Len(cod_runs) = 3
    /\ Len(cod_runs[1].fr) > cod_max
    /\ Len(cod_runs[2].fr) = 0
    /\ Len(cod_runs[3].fr) = 1

\* C8: the scan ends cleanly, with the entries read so far, only when the
\* stream ends at a record boundary; a stream that ends inside the count or
\* inside the coordinates makes the scan fail.
C8_CleanEndOnlyAtBoundary ==
    cod_pc \in {"scanned", "loaded"}
        => /\ cod_meta.ok <=> \E k \in 0..Len(cod_runs) : cod_cut = RecordBoundary(k)
           /\ cod_meta.ok => cod_cut = RecordBoundary(Len(cod_meta.metadata))

\* a stream cut inside the coordinates of its second record: the scan fails
C8_Witness ==
    /\ cod_pc = "scanned"
    /\ Len(cod_runs) >= 2
    /\ cod_cut > RecordBoundary(1) + 3
    /\ cod_cut < RecordBoundary(2)
    /\ ~cod_meta.ok

(***************************************************************************)
(* Specification of the windowed player                                    *)
(***************************************************************************)
InitPlay == PlayInit /\ SegIdle /\ ExtIdle /\ CodIdle /\ WideIdle /\ AnimIdle /\ MapIdle /\ PartIdle
    /\ PipeIdle /\ GrpIdle

NextPlay ==
    /\ \/ Prepare
       \/ RenderFrame
       \/ Render
       \/ ReadPixels
       \/ WriteFrame
       \/ FrameStepFails
       \/ FinishVideo
    /\ UNCHANGED <<segVars, extVars, codVars, wideVars, animVars, mapVars, partVars,
                 pipeVars, grpVars>>

SpecPlay == InitPlay /\ [][NextPlay]_vars

(***************************************************************************)
(* Claims about the windowed player                                        *)
(***************************************************************************)
\* the frame that frame_out shows
ShownFrame == IF play_pc \in {"render", "read", "encode", "failed"} THEN frame_number
              ELSE frame_number - 1

FrameShown == frame_out # <<>>

\* progress as usize, recomputed from the arguments and the run's offset
CoordIndexOf(k) ==
    progress_num(play_args, ShownFrame, run_offsets[k]) \div progress_den(play_args)

Unfinished(k) == CoordIndexOf(k) < metadata[k].coord_count

\* C9: in every frame, every run that is not finished has its coord_index
\* inside the resident window [loaded_chunk_start, loaded_chunk_end); the
\* "coord index not loaded" branch is never taken.
C9_UnfinishedRunsAreResident ==
    FrameShown =>
        \A k \in 1..Len(metadata) :
            /\ frame_out[k].coord_index = CoordIndexOf(k)
            /\ frame_out[k].status # "not_loaded"
            /\ Unfinished(k) =>
                /\ loaded_chunk_start <= CoordIndexOf(k)
                /\ CoordIndexOf(k) < loaded_chunk_end

\* an unfinished, drawn run whose index lies in the overlap below the needed
\* chunk, with chunks of several indices, a start_step and a non-zero offset
C9_Witness ==
    /\ FrameShown
    /\ play_args.start_step > 0
    /\ \E k \in 1..Len(metadata) :
        /\ Unfinished(k)
        /\ frame_out[k].status = "drawn"
        /\ CoordIndexOf(k) < current_chunk_idx * chunk_size(metadata)
    /\ chunk_size(metadata) > 1
    /\ \E k \in 1..Len(metadata) : run_offsets[k] > 0

\* the run k of an unwindowed decode: every index of every run
FullDecode(k) ==
    load_chunk_coords(play_file, metadata, 0, max_coords_of(metadata)).runs[k]

FirstFrames(n) == [i \in 1..n |-> i - 1]

\* C11: the steps of a frame run in the order reload/build, render, read
\* back, encode; the encoder receives each frame number once, in increasing
\* order, each time the pixels of the batch built for that frame number; and
\* encoder.finish is called only after the last frame was written.
C11_FramesEncodedInOrder ==
    /\ encoder_frames = FirstFrames(Len(encoder_frames))
    /\ play_pc \in {"frame", "render", "read", "encode", "done"}
           => Len(encoder_frames) = frame_number
    /\ play_pc \in {"read", "encode"} => render_target = frame_number
    /\ play_pc = "encode" => pixels = frame_number
    /\ Len(encoder_frames) <= total_frames
    /\ encoder_finished => Len(encoder_frames) = total_frames /\ play_pc = "done"

\* a finished video of several frames whose window was reloaded on the way
C11_Witness ==
    /\ encoder_finished
    /\ Len(encoder_frames) >= 3
    /\ encoder_frames = FirstFrames(total_frames)
    /\ current_chunk_idx > 0

(***************************************************************************)
(* Specification of the sprite of one sequence at one time                 *)
(***************************************************************************)
InitAnim ==
    AnimInit /\ SegIdle /\ ExtIdle /\ CodIdle /\ WideIdle /\ PlayIdle /\ MapIdle /\ PartIdle
    /\ PipeIdle /\ GrpIdle

NextAnim ==
    /\ (GetAnimationState \/ InterpolateSprite \/ WindowedSprite)
    /\ UNCHANGED <<segVars, extVars, codVars, wideVars, playVars, mapVars, partVars,
                 pipeVars, grpVars>>

SpecAnim == InitAnim /\ [][NextAnim]_vars

(***************************************************************************)
(* Claims about the sprite of one sequence at one time                     *)
(***************************************************************************)
AnimCurrentPos == convert_coords(anim_seq[anim_state.current_frame_index + 1])

AnimNextPos == convert_coords(anim_seq[anim_state.next_frame_index + 1])

\* the position the interpolator is to emit, in 1 / interval_ms of a pixel
AnimExpected(threshold_exceeded) ==
    LET t == IF threshold_exceeded THEN 0 ELSE anim_state.interpolation_t
    IN <<AnimCurrentPos[1] * anim_args.interval_ms + (AnimNextPos[1] - AnimCurrentPos[1]) * t,
         AnimCurrentPos[2] * anim_args.interval_ms + (AnimNextPos[2] - AnimCurrentPos[2]) * t>>

AnimSimpleRule ==
    anim_instance.some =>
        anim_instance.position =
            AnimExpected(\/ Abs(AnimNextPos[1] - AnimCurrentPos[1]) > 16
                         \/ Abs(AnimNextPos[2] - AnimCurrentPos[2]) > 16)

WinDen == progress_den(AnimPlayArgs)

WinProgress == progress_num(AnimPlayArgs, anim_args.frame, anim_args.offset)

WinCurrentPos == convert_coords(anim_seq[(WinProgress \div WinDen) + 1])

WinNextPos ==
    convert_coords(anim_seq[Min((WinProgress \div WinDen) + 1, Len(anim_seq) - 1) + 1])

\* the position of the windowed loop body, in 1 / WinDen of a pixel, shifted
\* by anchor pixels on both axes
WinExpected(anchor) ==
    LET exceeded == Abs(WinNextPos[1] - WinCurrentPos[1])
                        + Abs(WinNextPos[2] - WinCurrentPos[2]) > 48
        t == IF exceeded THEN 0 ELSE WinProgress % WinDen
    IN <<WinCurrentPos[1] * WinDen + (WinNextPos[1] - WinCurrentPos[1]) * t - anchor * WinDen,
         WinCurrentPos[2] * WinDen + (WinNextPos[2] - WinCurrentPos[2]) * t - anchor * WinDen>>

\* C12 as stated: beyond the tile threshold (48 px Manhattan in the windowed
\* player, 16 px per axis in the interpolator) the emitted position is the
\* mapped position of the current coordinate, within it the emitted position
\* is current + (next - current) * interp_t.
C12_PositionIsMappedOrInterpolated ==
    anim_pc = "done" =>
        /\ AnimSimpleRule
        /\ anim_windowed.status = "drawn" => anim_windowed.position_num = WinExpected(0)

\* C12, amended: as stated for the interpolator; the windowed player emits
\* that position moved by -8 px on both axes (the sprite is centred on it).
C12_PositionRuleWithAnchor ==
    anim_pc = "done" =>
        /\ AnimSimpleRule
        /\ anim_windowed.status = "drawn" => anim_windowed.position_num = WinExpected(8)

\* between two coordinates 48 px apart, part of the way: the interpolator
\* stays on the current one, the windowed player interpolates
C12_Witness ==
    /\ anim_pc = "done"
    /\ anim_instance.some
    /\ anim_state.interpolation_t > 0
    /\ anim_instance.position = <<AnimCurrentPos[1] * anim_args.interval_ms,
                                  AnimCurrentPos[2] * anim_args.interval_ms>>
    /\ anim_windowed.status = "drawn"
    /\ anim_windowed.interp_num > 0
    /\ AnimNextPos[1] - AnimCurrentPos[1] = 48

AnimTime == frame_to_time(anim_args.frame, anim_args.fps)

\* k = floor(AnimTime / interval_ms)
IsFloorOfProgress(k) ==
    /\ k * anim_args.interval_ms <= AnimTime
    /\ AnimTime < (k + 1) * anim_args.interval_ms

\* C13: get_animation_state returns None when the sequence is empty or
\* floor(t / I) >= n, and otherwise current_frame_index = floor(t / I),
\* next_frame_index = min(current_frame_index + 1, n - 1) and
\* interpolation_t = frac(t / I); with n = 2 and I = 500 it returns (0, 1, 0)
\* at t = 0, (0, 1, 0.5) at t = 250 and (1, 1, .) at t = 500.
C13_AnimationState ==
    anim_pc \in {"state", "sprite", "done"} =>
        LET n == Len(anim_seq)
            I == anim_args.interval_ms
        IN /\ (n = 0 \/ AnimTime >= n * I) <=> ~anim_state.some
           /\ anim_state.some =>
               /\ IsFloorOfProgress(anim_state.current_frame_index)
               /\ anim_state.next_frame_index
                      = (IF anim_state.current_frame_index + 1 <= n - 1
                         THEN anim_state.current_frame_index + 1 ELSE n - 1)
               /\ anim_state.interpolation_t
                      = AnimTime - anim_state.current_frame_index * I
               /\ anim_state.interpolation_t < I
           /\ (n = 2 /\ I = 500 /\ AnimTime = 0) =>
                  /\ anim_state.some
                  /\ anim_state.current_frame_index = 0
                  /\ anim_state.next_frame_index = 1
                  /\ anim_state.interpolation_t = 0
           /\ (n = 2 /\ I = 500 /\ AnimTime = 250) =>
                  /\ anim_state.some
                  /\ anim_state.current_frame_index = 0
                  /\ anim_state.next_frame_index = 1
                  /\ 2 * anim_state.interpolation_t = I
           /\ (n = 2 /\ I = 500 /\ AnimTime = 500) =>
                  /\ anim_state.some
                  /\ anim_state.current_frame_index = 1
                  /\ anim_state.next_frame_index = 1

\* the last sample of a two-sample sequence, part of the way through its
\* interval: the next index is clamped
C13_Witness ==
    /\ anim_pc = "state"
    /\ Len(anim_seq) = 2
    /\ anim_state.some
    /\ anim_state.current_frame_index = 1
    /\ anim_state.next_frame_index = 1
    /\ anim_state.interpolation_t > 0

\* two samples of region 1 played at t = 250 ms with interval 500 ms and no
\* phase offset
HalfWayBetween(first, second) ==
    /\ anim_pc = "done"
    /\ anim_seq = <<first, second>>
    /\ anim_args.interval_ms = 500
    /\ AnimTime = 250
    /\ anim_args.offset = 0

\* twice the emitted position is the sum of the two mapped positions
AnimAtMidpoint ==
    /\ anim_instance.some
    /\ \A a \in 1..2 :
        2 * anim_instance.position[a]
            = (AnimCurrentPos[a] + AnimNextPos[a]) * anim_args.interval_ms

\* the same for the windowed player, whose positions are shifted by anchor
WinAtMidpoint(anchor) ==
    /\ anim_windowed.status = "drawn"
    /\ \A a \in 1..2 :
        2 * (anim_windowed.position_num[a] + anchor * WinDen)
            = (WinCurrentPos[a] + WinNextPos[a]) * WinDen

\* C14 as stated: for the coordinates (0,0,A) then (10,0,A), interval 500 ms
\* and no phase offset, the position produced at t = 250 ms is the midpoint
\* of the two mapped positions.
C14_MidpointTenTilesApart ==
    HalfWayBetween(<<0, 0, 1>>, <<10, 0, 1>>) => AnimAtMidpoint /\ WinAtMidpoint(0)

\* C14, amended: at t = 250 ms interp_t is 0.5, but (0,0,A) and (10,0,A) are
\* 160 px apart, beyond both tile thresholds, so the position produced is the
\* mapped position of (0,0,A) (moved by -8 px in the windowed player); for
\* (0,0,A) then (1,0,A), 16 px apart, it is the midpoint of the two mapped
\* positions (moved by -8 px in the windowed player).
C14_MidpointOnlyWithinThreshold ==
    /\ HalfWayBetween(<<0, 0, 1>>, <<10, 0, 1>>) =>
        /\ anim_state.some /\ 2 * anim_state.interpolation_t = anim_args.interval_ms
        /\ anim_instance.some
        /\ anim_instance.position = <<AnimCurrentPos[1] * anim_args.interval_ms,
                                      AnimCurrentPos[2] * anim_args.interval_ms>>
        /\ anim_windowed.status = "drawn"
        /\ anim_windowed.position_num = <<(WinCurrentPos[1] - 8) * WinDen,
                                          (WinCurrentPos[2] - 8) * WinDen>>
    /\ HalfWayBetween(<<0, 0, 1>>, <<1, 0, 1>>) =>
        /\ 2 * anim_state.interpolation_t = anim_args.interval_ms
        /\ AnimAtMidpoint
        /\ WinAtMidpoint(8)

\* the scenario of the claim, both sprites computed
C14_Witness ==
    /\ HalfWayBetween(<<0, 0, 1>>, <<10, 0, 1>>)
    /\ anim_instance.some
    /\ anim_windowed.status = "drawn"
    /\ AnimNextPos[1] - AnimCurrentPos[1] = 160

(***************************************************************************)
(* Specification of the coordinate mapper                                  *)
(***************************************************************************)
InitMap ==
    MapInit /\ SegIdle /\ ExtIdle /\ CodIdle /\ WideIdle /\ PlayIdle /\ AnimIdle /\ PartIdle
    /\ PipeIdle /\ GrpIdle

NextMap ==
    /\ ConvertCoords
    /\ UNCHANGED <<segVars, extVars, codVars, wideVars, playVars, animVars, partVars,
                 pipeVars, grpVars>>

SpecMap == InitMap /\ [][NextMap]_vars

(***************************************************************************)
(* Claims about the coordinate mapper                                      *)
(***************************************************************************)
MapCallsMade == {map_calls[k] : k \in 1..Len(map_calls)}

\* C15: convert_coords returns the sentinel (117117, 117117) for every region
\* id absent from the table, returns the same result for the same input, and
\* no call changes the region table.
C15_TotalAndDeterministic ==
    /\ [](\A c \in MapCallsMade :
            /\ c.coords[3] \notin DOMAIN map_regions => c.result = <<117117, 117117>>
            /\ \A d \in MapCallsMade : d.coords = c.coords => d.result = c.result)
    /\ [][map_regions' = map_regions]_vars

\* the same coordinate of an absent region converted twice, on a table that
\* has regions
C15_Witness ==
    /\ Len(map_calls) = 2
    /\ map_calls[1].coords = map_calls[2].coords
    /\ map_calls[1].coords[3] \notin DOMAIN map_regions
    /\ map_regions # NoRegions
    /\ map_calls[2].result = <<117117, 117117>>

StrictlyBefore(i, j) ==
    \/ Timestamp(i) < Timestamp(j)
    \/ Timestamp(i) = Timestamp(j)
           /\ frames[i + 1].path_index < frames[j + 1].path_index

\* C18: within every emitted run, consecutive samples are strictly increasing
\* in (timestamp, path_index) order: no two samples of a run share the same
\* (timestamp, path_index).
C18_RunsStrictlyOrdered ==
    \A k \in 1..Len(runs) :
        \A j \in (runs[k].first + 1)..runs[k].last : StrictlyBefore(j - 1, j)

(***************************************************************************)
(* More claims about the extraction job                                    *)
(***************************************************************************)
\* the records the current process appended to the run file, flushed or not
WrittenThisJob ==
    SubSeq(output_disk, Len(ext_start.output) + 1, Len(output_disk)) \o output_buf

\* the ledger lines the current process appended, flushed or not
LedgeredThisJob ==
    SubSeq(progress_disk, Len(ext_start.progress) + 1, Len(progress_disk)) \o progress_buf

FailedInputSkipped(f) ==
    /\ \A k \in 1..Len(WrittenThisJob) : WrittenThisJob[k].src # f
    /\ f \notin Range(LedgeredThisJob)
    /\ f \notin Range(progress_disk)

OtherInputProcessed(f) ==
    /\ f \in Range(LedgeredThisJob)
    /\ \A r \in Range(file_records(f)) : r \in Range(WrittenThisJob)

\* C19: an input whose read fails gets no record and no ledger line from the
\* process (so the next process does not find it in the ledger), and a
\* process that reaches its end has written the records and the ledger line
\* of every other input it did not find in the ledger at its start.
C19_FailedInputSkippedOthersProceed ==
    /\ \A f \in read_failed : FailedInputSkipped(f)
    /\ ext_pc = "exited" =>
           \A i \in 1..Len(parquet_files) :
               (parquet_files[i] \notin read_failed /\ parquet_files[i] \notin processed_files)
                   => OtherInputProcessed(parquet_files[i])

\* a process that ran to its end after the read of one input failed and a
\* later input, not in the ledger at the start, was processed
C19_Witness ==
    /\ ext_pc = "exited"
    /\ \E i, j \in 1..Len(parquet_files) :
           /\ i < j
           /\ parquet_files[i] \in read_failed
           /\ parquet_files[j] \notin read_failed
           /\ parquet_files[j] \notin processed_files
           /\ OtherInputProcessed(parquet_files[j])

(***************************************************************************)
(* Specification of the chunk partition                                    *)
(***************************************************************************)
InitChunks ==
    PartInit /\ SegIdle /\ ExtIdle /\ CodIdle /\ WideIdle /\ PlayIdle /\ AnimIdle /\ MapIdle
    /\ PipeIdle /\ GrpIdle

NextChunks ==
    /\ (ComputeChunks \/ LocateChunk)
    /\ UNCHANGED <<segVars, extVars, codVars, wideVars, playVars, animVars, mapVars,
                 pipeVars, grpVars>>

SpecChunks == InitChunks /\ [][NextChunks]_vars

ChunksComputed == part_pc = "frame"

\* the indices of [k * chunk_size, (k + 1) * chunk_size)
ChunkRange(k) == {i \in 0..((part_num + 8) * part_size) :
                     k * part_size <= i /\ i < (k + 1) * part_size}

ChunksDisjoint ==
    \A k1, k2 \in 0..(part_num - 1) : k1 # k2 => ChunkRange(k1) \cap ChunkRange(k2) = {}

ChunksCover ==
    \A i \in 0..(part_max - 1) : \E k \in 0..(part_num - 1) : i \in ChunkRange(k)

\* C20 as stated: for every M >= 1 the ranges [k * chunk_size, (k + 1) *
\* chunk_size) for k < num_chunks are disjoint and cover [0, M), and
\* num_chunks equals 8.
C20_EightEqualChunks ==
    ChunksComputed => (ChunksDisjoint /\ ChunksCover /\ part_num = 8)

\* C20, amended: chunk_size is M / 8 rounded up and num_chunks is M /
\* chunk_size rounded up, which lies between 1 and 8 and is 8 when M is a
\* multiple of 8; the ranges are disjoint and cover [0, M), every chunk
\* starts inside [0, M), only the last can reach beyond M, and the chunk
\* chosen for a median index below M holds that index.
C20_AtMostEightChunks ==
    ChunksComputed =>
        /\ ChunksDisjoint
        /\ ChunksCover
        /\ 8 * (part_size - 1) < part_max /\ part_max <= 8 * part_size
        /\ part_size * (part_num - 1) < part_max /\ part_max <= part_size * part_num
        /\ 1 <= part_num /\ part_num <= 8
        /\ part_max % 8 = 0 => part_num = 8
        /\ part_needed # -1 =>
               /\ part_needed \in 0..(part_num - 1)
               /\ part_index < part_max => part_index \in ChunkRange(part_needed)

\* nine coordinates make five chunks of two, and the frame whose median
\* index is 8 needs the last of them, which holds one index of [0, 9)
C20_Witness ==
    /\ ChunksComputed
    /\ part_max = 9
    /\ part_size = 2
    /\ part_num = 5
    /\ part_index = 8
    /\ part_needed = 4

(***************************************************************************)
(* More claims about the windowed player                                   *)
(***************************************************************************)
\* the mapped displacement between the two coordinates a frame looked up
Displacement(o) ==
    LET current_pos == convert_coords(o.current_coord)
        next_pos == convert_coords(o.next_coord)
    IN <<next_pos[1] - current_pos[1], next_pos[2] - current_pos[2]>>

Moved(o) == Displacement(o) # <<0, 0>>

\* C21: the remembered direction of a run changes in a frame only if the run
\* emits an instance in that frame and its mapped displacement is not zero
\* (the positions are whole pixels), and then it becomes the direction of
\* that displacement; in every other frame, a chunk reload included, it is
\* left as it was; the instance is emitted with the remembered direction.
C21_DirectionPersists ==
    /\ [](FrameShown =>
             \A k \in 1..Len(frame_out) : frame_out[k].direction = run_directions[k])
    /\ [][Len(run_directions') = Len(run_directions) =>
             \A k \in 1..Len(run_directions) :
                 IF /\ frame_out' # <<>>
                    /\ frame_out'[k].status = "drawn"
                    /\ Moved(frame_out'[k])
                 THEN run_directions'[k] =
                          new_direction(Displacement(frame_out'[k])[1],
                                        Displacement(frame_out'[k])[2])
                 ELSE run_directions'[k] = run_directions[k]]_playVars

\* a frame that reloads the window and draws a run standing still, facing
\* the way an earlier movement left it
C21_Witness ==
    /\ play_pc = "render"
    /\ frame_number > 0
    /\ loaded_chunk_start > 0
    /\ \E k \in 1..Len(frame_out) :
           /\ frame_out[k].status = "drawn"
           /\ ~Moved(frame_out[k])
           /\ run_directions[k] # "Down"

(***************************************************************************)
(* Claims about the strict rules of extract_compact_runs                   *)
(***************************************************************************)
\* the pair (j - 1, j) the k-th iteration of the split loop compared
PrevCoord(k) == frames[split_log[k].j].coords
CurCoord(k) == frames[split_log[k].j + 1].coords
PairGap(k) == Timestamp(split_log[k].j) - Timestamp(split_log[k].j - 1)

\* the iteration that compared the pair (j - 1, j)
LogIndex(j) == CHOOSE k \in 1..Len(split_log) : split_log[k].j = j

\* no emitted run holds both samples of a pair that satisfies P
NoRunHoldsPair(P(_)) ==
    \A n \in 1..Len(runs) :
        \A j \in (runs[n].first + 1)..runs[n].last : ~P(LogIndex(j))

CrossRegion(k) == PrevCoord(k)[3] # CurCoord(k)[3]

InTable(k) == <<PrevCoord(k)[3], CurCoord(k)[3]>> \in WARP_V2

UnvalidatedJump(k) == CrossRegion(k) /\ ~InTable(k)

\* C22 as stated: consecutive samples of one group whose regions differ and
\* whose region pair is not in the adjacency/warp table are split: the pair
\* is logged as a split and no emitted run holds both samples.
C22_UnvalidatedJumpSplits ==
    /\ \A k \in 1..Len(split_log) : UnvalidatedJump(k) => split_log[k].split
    /\ NoRunHoldsPair(UnvalidatedJump)

\* the index of the region in the checkpoint list lies strictly between the
\* floor 5 and the progress index of the open run
ToleratedBacktrack(k) ==
    /\ CurCoord(k)[3] \in Range(map_id_order_required)
    /\ Position(map_id_order_required, CurCoord(k)[3]) > 5
    /\ Position(map_id_order_required, CurCoord(k)[3]) < split_log[k].progress

JumpNotExcused(k) ==
    /\ UnvalidatedJump(k)
    /\ CurCoord(k)[3] \notin {0, 1, 40}
    /\ ~ToleratedBacktrack(k)

\* C22, amended: the split is forced unless the region entered is 0, 1 or
\* 40, which the code accepts from any region, or the transition is a
\* tolerated backtrack.
C22_UnexcusedJumpSplits ==
    /\ \A k \in 1..Len(split_log) : JumpNotExcused(k) => split_log[k].split
    /\ NoRunHoldsPair(JumpNotExcused)

\* a jump from region 51 to region 12, not in the table, at the same
\* timestamp and with no skip ahead and no reset: only the validity rule
\* splits it; and a run written with a jump into region 40 inside it
C22_Witness ==
    /\ \E k \in 1..Len(split_log) :
           /\ JumpNotExcused(k)
           /\ PrevCoord(k)[3] = 51 /\ CurCoord(k)[3] = 12
           /\ PairGap(k) = 0
           /\ split_log[k].split
    /\ \E n \in 1..Len(runs) :
           \E j \in (runs[n].first + 1)..runs[n].last :
               UnvalidatedJump(LogIndex(j)) /\ frames[j + 1].coords[3] = 40

LocalDisplacement(k) ==
    Abs(CurCoord(k)[1] - PrevCoord(k)[1]) + Abs(CurCoord(k)[2] - PrevCoord(k)[2])

LargeLocalMove(k) == ~CrossRegion(k) /\ ~InTable(k) /\ LocalDisplacement(k) > 60

\* C23: a transition inside one region that the table does not validate and
\* whose local displacement |dx| + |dy| is more than 60 is split, whatever
\* the direction of the move: the pair is logged as a split and no emitted
\* run holds both samples.
C23_LargeLocalMoveSplits ==
    /\ \A k \in 1..Len(split_log) : LargeLocalMove(k) => split_log[k].split
    /\ NoRunHoldsPair(LargeLocalMove)

CheckpointIndex(k) == Position(map_id_order_required, CurCoord(k)[3])

SkipsAhead(k) == CheckpointIndex(k) # -1 /\ CheckpointIndex(k) - split_log[k].progress > 1

\* the pair of iteration k is the one the scan compared last
JustCompared(k) ==
    seg_pc = "group" /\ k = Len(split_log) /\ split_log[k].j = Len(frames) - 1

\* C24: when the checkpoint index of the region of sample i is more than one
\* above the progress index of the open run, the scan splits at i: the span
\* [run_start, i - 1] is closed, the open span starts at i, no emitted run
\* holds both samples, and the progress index is back at 5, not advanced.
C24_SkipAheadSplits ==
    /\ \A k \in 1..Len(split_log) :
           SkipsAhead(k) =>
               /\ split_log[k].split
               /\ \E n \in 1..Len(candidates) :
                      candidates[n] = [first |-> split_log[k].run_start,
                                       last |-> split_log[k].j - 1]
               /\ JustCompared(k) =>
                      /\ run_start = split_log[k].j
                      /\ run_map_id_progress = required_order_init_idx
                      /\ run_map_id_progress <= split_log[k].progress
    /\ NoRunHoldsPair(SkipsAhead)

\* two samples at the same place in region 13 (checkpoint 7) at the same
\* time, compared when the progress index is 5: only the checkpoint rule
\* splits them; and a skip ahead that closed a span long enough to be written
C24_Witness ==
    /\ \E k \in 1..Len(split_log) :
           /\ SkipsAhead(k)
           /\ JustCompared(k)
           /\ PrevCoord(k) = CurCoord(k)
           /\ PairGap(k) = 0
           /\ split_log[k].split
    /\ \E k \in 1..Len(split_log) : SkipsAhead(k) /\ split_log[k].written

\* a rule other than transition validity and the checkpoint rule splits the pair
OtherRuleSplits(k) ==
    \/ PairGap(k) >= gap_threshold
    \/ reset_split(PrevCoord(k)[3], CurCoord(k)[3])
    \/ early_big_jump_fail(frames, split_log[k].j, split_log[k].run_start, seg_args)

\* C25: a transition to a region whose checkpoint index is below the progress
\* index of the open run and above the floor 5 is not split by the validity
\* rule or the checkpoint rule and leaves the progress index as it was; the
\* progress index is never below 5, and from one sample of an open run to the
\* next it does not decrease and rises by at most one.
C25_BacktrackTolerated ==
    /\ [](/\ run_map_id_progress >= 5
          /\ \A k \in 1..Len(split_log) :
                 (ToleratedBacktrack(k) /\ ~OtherRuleSplits(k)) =>
                     /\ ~split_log[k].split
                     /\ JustCompared(k) =>
                            /\ run_map_id_progress = split_log[k].progress
                            /\ run_start = split_log[k].run_start)
    /\ [][(seg_pc = "group" /\ seg_pc' = "group" /\ run_start' = run_start) =>
             /\ run_map_id_progress' >= run_map_id_progress
             /\ run_map_id_progress' <= run_map_id_progress + 1]_segVars

\* a run whose progress index rose step by step to 8 goes back from region
\* 51 to region 13 (checkpoint 7), a pair the table does not hold, and then
\* makes a long move inside region 13: neither pair is split
C25_Witness ==
    /\ run_map_id_progress = 8
    /\ \E k \in 2..Len(split_log) :
           /\ JustCompared(k)
           /\ ToleratedBacktrack(k) /\ LargeLocalMove(k) /\ ~split_log[k].split
           /\ ToleratedBacktrack(k - 1) /\ UnvalidatedJump(k - 1) /\ ~split_log[k - 1].split
           /\ split_log[k].run_start = 0

StartRegions == {0, 37, 40, 38, 39}
AdjacentRegions == {12, 32}

EntersStartFromElsewhere(k) ==
    /\ CurCoord(k)[3] \in StartRegions
    /\ PrevCoord(k)[3] \notin StartRegions \cup AdjacentRegions

EntersStartFromNearby(k) ==
    /\ CurCoord(k)[3] \in StartRegions
    /\ PrevCoord(k)[3] \in StartRegions \cup AdjacentRegions

\* a rule other than the reset rule splits the pair
NonResetRuleSplits(k) ==
    \/ PairGap(k) >= gap_threshold
    \/ illegal_skip_ahead(CurCoord(k), split_log[k].progress)
    \/ full_transition_invalid(PrevCoord(k), CurCoord(k), split_log[k].progress)
    \/ early_big_jump_fail(frames, split_log[k].j, split_log[k].run_start, seg_args)

\* C26: a sample in a start region {0, 37, 40, 38, 39} that follows a sample
\* in a region outside the start regions and outside {12, 32} is split from
\* it, and no emitted run holds both; when the sample before is in a start
\* or adjacent region and no other rule applies, the pair is not split.
C26_ResetRule ==
    /\ \A k \in 1..Len(split_log) : EntersStartFromElsewhere(k) => split_log[k].split
    /\ NoRunHoldsPair(EntersStartFromElsewhere)
    /\ \A k \in 1..Len(split_log) :
           (EntersStartFromNearby(k) /\ ~NonResetRuleSplits(k)) => ~split_log[k].split

\* region 40 entered from region 51 at the same timestamp, which only the
\* reset rule splits, and region 40 entered from region 12, not split
C26_Witness ==
    /\ \E k \in 1..Len(split_log) :
           /\ EntersStartFromElsewhere(k)
           /\ PrevCoord(k)[3] = 51
           /\ ~NonResetRuleSplits(k)
           /\ split_log[k].split
    /\ \E k \in 1..Len(split_log) :
           /\ EntersStartFromNearby(k)
           /\ PrevCoord(k)[3] = 12
           /\ ~split_log[k].split

\* more than 30 px between the mapped positions of two coordinates
FartherThan30(a, b) ==
    LET pa == convert_coords(a)
        pb == convert_coords(b)
    IN (pb[1] - pa[1]) * (pb[1] - pa[1]) + (pb[2] - pa[2]) * (pb[2] - pa[2]) > 900

\* C27 as stated: with pallet_start_only, a run in which one of the first
\* 140 samples lies more than 30 px from the first sample of the run is
\* never written.
C27_NoRunDriftsEarly ==
    seg_args.pallet_start_only =>
        \A n \in 1..Len(runs) :
            \A i \in runs[n].first..runs[n].last :
                i - runs[n].first < 140
                    => ~FartherThan30(frames[runs[n].first + 1].coords, frames[i + 1].coords)

\* the pair of iteration k is a step of more than 30 px made less than 140
\* samples after the start of the open run
EarlyBigStep(k) ==
    /\ split_log[k].j - split_log[k].run_start < 140
    /\ FartherThan30(PrevCoord(k), CurCoord(k))

\* C27, amended: with pallet_start_only, a single step of more than 30 px
\* less than 140 samples after the start of the open run splits there, and
\* the span it closes, [run_start, j - 1], is not written whatever its
\* duration; the displacement is measured between the two samples of the
\* step, not accumulated from the start of the run.
C27_EarlyBigStepDropsSpan ==
    seg_args.pallet_start_only =>
        /\ \A k \in 1..Len(split_log) :
               EarlyBigStep(k) =>
                   /\ split_log[k].split
                   /\ ~split_log[k].written
                   /\ \A n \in 1..Len(runs) :
                          runs[n] # [first |-> split_log[k].run_start,
                                     last |-> split_log[k].j - 1]
        /\ NoRunHoldsPair(EarlyBigStep)

\* a span of 60 s that starts in region 40 is closed by a step of two tiles
\* made at the timestamp of the sample before it, and is not written
C27_Witness ==
    /\ seg_args.pallet_start_only
    /\ \E k \in 1..Len(split_log) :
           /\ EarlyBigStep(k)
           /\ PairGap(k) = 0
           /\ frames[split_log[k].run_start + 1].coords[3] = 40
           /\ Timestamp(split_log[k].j - 1) - Timestamp(split_log[k].run_start) >= 60
           /\ split_log[k].split
           /\ ~split_log[k].written

GapRule(k) == PairGap(k) >= 120

\* C28 as stated: without pallet_start_only a pair is split if and only if
\* the gap rule or the reset rule holds for it.
C28_OnlyGapAndReset ==
    ~seg_args.pallet_start_only =>
        \A k \in 1..Len(split_log) :
            split_log[k].split <=> (GapRule(k) \/ EntersStartFromElsewhere(k))

\* the same-region test as the code makes it
SmallLocalMove(k) ==
    /\ ~CrossRegion(k)
    /\ Abs(CurCoord(k)[1] - PrevCoord(k)[1]) + (CurCoord(k)[2] - PrevCoord(k)[2]) <= 60

TransitionRefused(k) ==
    ~(InTable(k) \/ CurCoord(k)[3] \in {0, 1, 40} \/ SmallLocalMove(k)
      \/ ToleratedBacktrack(k))

\* C28, amended: pallet_start_only switches off the early displacement rule
\* (and the start region filter) only; without it a pair is split if and
\* only if the gap rule, the reset rule, the transition validity rule (table
\* included) or the checkpoint rule holds for it.
C28_AllButEarlyRule ==
    ~seg_args.pallet_start_only =>
        \A k \in 1..Len(split_log) :
            split_log[k].split <=>
                (GapRule(k) \/ EntersStartFromElsewhere(k) \/ TransitionRefused(k)
                 \/ SkipsAhead(k))

\* without the flag, a step of two tiles at the start of a run is not split
C28_Witness ==
    /\ ~seg_args.pallet_start_only
    /\ \E k \in 1..Len(split_log) :
           /\ EarlyBigStep(k)
           /\ split_log[k].run_start = 0
           /\ ~split_log[k].split

(***************************************************************************)
(* Claims about the spans of the segmenter                                 *)
(***************************************************************************)
\* the samples the closed spans must cover: all of them between two groups,
\* those before the open span inside a group
ClosedUpTo == IF seg_pc = "group" THEN run_start ELSE Len(frames)

SpansPartition ==
    /\ \A n \in 1..Len(candidates) :
           /\ candidates[n].first <= candidates[n].last
           /\ candidates[n].first = (IF n = 1 THEN 0 ELSE candidates[n - 1].last + 1)
           /\ \A i \in candidates[n].first..candidates[n].last :
                  SameGroup(frames[i + 1], frames[candidates[n].first + 1])
    /\ ClosedUpTo = (IF candidates = <<>> THEN 0
                      ELSE candidates[Len(candidates)].last + 1)
    /\ seg_pc = "group" =>
           /\ run_start < Len(frames)
           /\ \A i \in run_start..(Len(frames) - 1) :
                  SameGroup(frames[i + 1], frames[run_start + 1])

SplitClosesSpan ==
    \A k \in 1..Len(split_log) :
        (JustCompared(k) /\ split_log[k].split) =>
            /\ candidates[Len(candidates)] =
                   [first |-> split_log[k].run_start, last |-> split_log[k].j - 1]
            /\ run_start = split_log[k].j
            /\ run_map_id_progress = required_order_init_idx

RunsAreSpansInOrder ==
    /\ \A n \in 1..Len(runs) : \E c \in 1..Len(candidates) : candidates[c] = runs[n]
    /\ \A n \in 2..Len(runs) : runs[n - 1].last < runs[n].first

\* the one record write_compact_run makes of emitted run n under a maximum
RecordOf(n, max_coords) ==
    write_compact_run(frames[runs[n].first + 1].sprite_id,
                      SubSeq(frames, runs[n].first + 1, runs[n].last + 1), max_coords)

RecordIsTruncatedRun(n, max_coords) ==
    LET len == runs[n].last - runs[n].first + 1
        kept == IF len < max_coords THEN len ELSE max_coords
        rec == RecordOf(n, max_coords)
    IN /\ Len(rec) = 3 + 3 * kept
       /\ rec[2] + 256 * rec[3] = kept
       /\ \A i \in 1..kept :
              <<rec[3 * i + 1], rec[3 * i + 2], rec[3 * i + 3]>>
                  = frames[runs[n].first + i].coords

\* C29: the spans the scan closes are non-empty, follow one another without
\* gap or overlap from the first sample on, never cross a group boundary and,
\* once a group is closed, cover all its samples; a split at i closes
\* [run_start, i - 1], moves run_start to i and puts the progress index
\* back to 5; the emitted runs are some of these spans, in stream order, and
\* each is written as one record that keeps the first max_coords samples.
C29_SpansPartitionGroups ==
    /\ SpansPartition
    /\ SplitClosesSpan
    /\ RunsAreSpansInOrder
    /\ \A n \in 1..Len(runs) : \A m \in {1, 2, max_coords_per_run} : RecordIsTruncatedRun(n, m)

\* a finished scan of two groups by extract_compact_runs: a split was made
\* when the progress index had left 5, a run of more than one sample was
\* written, and there are more spans than runs
C29_Witness ==
    /\ seg_pc = "done"
    /\ seg_args.tool = "extract"
    /\ \E k \in 1..Len(split_log) : split_log[k].split /\ split_log[k].progress > 5
    /\ \E n \in 1..Len(runs) : runs[n].last > runs[n].first
    /\ Len(candidates) > Len(runs)
    /\ frames[1].user # frames[Len(frames)].user

StartsInStartRegion(span) == frames[span.first + 1].coords[3] \in StartRegions

SpanDuration(span) == Timestamp(span.last) - Timestamp(span.first)

\* C30: with pallet_start_only, the first sample of every emitted run lies
\* in a start region {0, 37, 40, 38, 39}, whether the run was closed by a
\* split or at the end of its group.
C30_RunsStartInStartRegion ==
    seg_args.pallet_start_only => \A n \in 1..Len(runs) : StartsInStartRegion(runs[n])

\* a finished scan with the option set that wrote two runs starting in
\* region 40, one closed by a split and one at the end of the group
C30_Witness ==
    /\ seg_pc = "done"
    /\ seg_args.pallet_start_only
    /\ Len(runs) = 2
    /\ \E k \in 1..Len(split_log) :
           split_log[k].written /\ runs[1].last = split_log[k].j - 1
    /\ runs[2] = candidates[Len(candidates)]
    /\ runs[2].last = Len(frames) - 1
    /\ StartsInStartRegion(runs[1]) /\ StartsInStartRegion(runs[2])

(***************************************************************************)
(* Claims about the resident window of the windowed player                 *)
(***************************************************************************)
\* the index range of chunk k with two indices of overlap on each side,
\* clamped to [0, M), M the largest coordinate count
WindowLow(k) ==
    LET low == k * ((max_coords_of(metadata) + 7) \div 8) - 2
    IN IF low < 0 THEN 0 ELSE low

WindowHigh(k) ==
    LET high == (k + 1) * ((max_coords_of(metadata) + 7) \div 8) + 2
    IN IF high > max_coords_of(metadata) THEN max_coords_of(metadata) ELSE high

\* the indices of run r that lie in [low, high)
IndicesInWindow(r, low, high) ==
    {i \in 0..(metadata[r].coord_count - 1) : low <= i /\ i < high}

\* slice holds exactly the coordinates of run r (as the input file was
\* written) whose indices lie in [low, high), in order
SliceIsWindowOfRun(slice, r, low, high) ==
    LET idx == IndicesInWindow(r, low, high)
    IN /\ Len(slice) = Cardinality(idx)
       /\ idx # {} => \A i \in idx : slice[i - low + 1] = PlayCoordAt(r, i + 1)

\* loaded is one slice per run, in metadata order, of the window [low, high)
LoadedIsWindow(loaded, low, high) ==
    /\ Len(loaded) = Len(metadata)
    /\ \A r \in 1..Len(metadata) :
        /\ loaded[r].sprite_id = metadata[r].sprite_id
        /\ SliceIsWindowOfRun(loaded[r].coords, r, low, high)

\* C31: whenever the chunk k a frame needs differs from the resident chunk,
\* the frame replaces the resident window with [k * chunk_size - 2,
\* (k + 1) * chunk_size + 2) clamped to [0, M) and loads, for every run in
\* metadata order, exactly the coordinates whose indices lie in that range
\* and in [0, count): an empty slice for a run with no such index.
C31_ReloadLoadsClampedWindow ==
    [][(RenderFrame /\ current_chunk_idx' # current_chunk_idx)
        => /\ loaded_chunk_start' = WindowLow(current_chunk_idx')
           /\ loaded_chunk_end' = WindowHigh(current_chunk_idx')
           /\ LoadedIsWindow(loaded_runs', loaded_chunk_start', loaded_chunk_end')]_vars

\* a window reloaded over another one, clamped at its end and not at its
\* start, in which the short run has an empty slice and the long one has not
C31_Witness ==
    /\ FrameShown
    /\ current_chunk_idx > 0
    /\ loaded_chunk_start = current_chunk_idx * chunk_size(metadata) - 2
    /\ loaded_chunk_start > 0
    /\ loaded_chunk_end = max_coords_of(metadata)
    /\ loaded_chunk_end < (current_chunk_idx + 1) * chunk_size(metadata) + 2
    /\ Len(loaded_runs) = 2
    /\ loaded_runs[1].coords # <<>>
    /\ loaded_runs[2].coords = <<>>
    /\ metadata[2].coord_count > 0

(***************************************************************************)
(* Claims about the reads of the windowed loader                           *)
(***************************************************************************)
\* the loader ran on the metadata the scan produced from the same stream
ChunkLoaded == cod_pc = "loaded"

\* the reads load_chunk_coords made for the k-th metadata entry
ReadsOf(k) == cod_loaded.reads[k]

\* the position the loader tracks when it reaches entry k
PositionBefore(k) == IF k = 1 THEN 0 ELSE ReadsOf(k - 1).exit_pos

\* C32: load_chunk_coords reads the stream forward from its start: on the
\* metadata of the scan and any chunk range, the tracked position (which is
\* the reader's position) never exceeds the next run's recorded offset,
\* the bytes skipped before, loaded and skipped after add up to the run's
\* payload of 3 bytes per coordinate, and after a run the position is the
\* run's offset plus 3 times its count.
C32_ForwardOnlyReads ==
    ChunkLoaded
        => /\ cod_loaded.ok
           /\ Len(cod_loaded.reads) = Len(cod_meta.metadata)
           /\ \A k \in 1..Len(cod_meta.metadata) :
                LET m == cod_meta.metadata[k]
                    rd == ReadsOf(k)
                IN /\ rd.entry_pos = PositionBefore(k)
                   /\ rd.entry_pos <= m.file_offset
                   /\ rd.entry_pos + rd.to_offset = m.file_offset
                   /\ rd.skip_before + rd.bytes_to_read + rd.skip_after = 3 * m.coord_count
                   /\ rd.bytes_to_read = 3 * Len(cod_loaded.runs[k].coords)
                   /\ rd.exit_pos = m.file_offset + 3 * m.coord_count
                   /\ rd.reader_pos = rd.exit_pos
                   /\ rd.reader_pos <= cod_cut

\* three runs loaded over a range inside the first one: bytes of it are
\* skipped before and after the loaded ones, and a later run is skipped whole
C32_Witness ==
    /\ ChunkLoaded
    /\ Len(cod_meta.metadata) = 3
    /\ cod_chunk[1] > 0
    /\ ReadsOf(1).skip_before > 0
    /\ ReadsOf(1).bytes_to_read > 0
    /\ ReadsOf(1).skip_after > 0
    /\ cod_meta.metadata[2].coord_count > 0
    /\ ReadsOf(2).bytes_to_read = 0
    /\ ReadsOf(3).bytes_to_read > 0

(***************************************************************************)
(* Claims about coordinates without a position                             *)
(***************************************************************************)
\* the region of the coordinate is not in the region table (255 is not)
NoPosition(coord) == coord[3] \notin DOMAIN Regions

\* the coordinate index of run r in the frame about to be built
IndexInFrame(r) ==
    progress_num(play_args, frame_number, run_offsets[r]) \div progress_den(play_args)

\* the coordinates of run r, as the input file was written, that the frame
\* about to be built looks up
CurrentInFrame(r) == PlayCoordAt(r, IndexInFrame(r) + 1)

NextInFrame(r) ==
    LET last == metadata[r].coord_count - 1
    IN PlayCoordAt(r, (IF IndexInFrame(r) + 1 < last THEN IndexInFrame(r) + 1 ELSE last) + 1)

\* C33: a run whose current or next coordinate has no position emits no
\* instance in that frame and keeps its remembered direction; the runs whose
\* two coordinates have positions emit theirs in the same frame, and the run
\* itself emits again as soon as both its coordinates have positions.
C33_InvalidPositionSkipsRun ==
    [][RenderFrame
        => \A r \in 1..Len(metadata) :
            IndexInFrame(r) < metadata[r].coord_count
                => IF NoPosition(CurrentInFrame(r)) \/ NoPosition(NextInFrame(r))
                   THEN /\ frame_out'[r].status = "invalid_map"
                        /\ run_directions'[r] = run_directions[r]
                   ELSE frame_out'[r].status = "drawn"]_vars

\* the index of run r one frame before the one shown
IndexInEarlierFrame(r) ==
    progress_num(play_args, ShownFrame - 1, run_offsets[r]) \div progress_den(play_args)

\* the first run, drawn one frame earlier, is skipped because its next
\* coordinate is in region 255, and is left facing up, as it was drawn
C33_Witness ==
    /\ FrameShown
    /\ ShownFrame > 0
    /\ frame_out[1].status = "invalid_map"
    /\ frame_out[1].next_coord[3] = 255
    /\ frame_out[1].direction = "Up"
    /\ run_directions[1] = "Up"
    /\ IndexInEarlierFrame(1) < CoordIndexOf(1)
    /\ ~NoPosition(PlayCoordAt(1, IndexInEarlierFrame(1) + 1))
    /\ ~NoPosition(PlayCoordAt(1, IndexInEarlierFrame(1) + 2))

(***************************************************************************)
(* Specification of the video encoder                                      *)
(***************************************************************************)
InitPipe ==
    PipeInit /\ SegIdle /\ ExtIdle /\ CodIdle /\ WideIdle /\ PlayIdle /\ AnimIdle /\ MapIdle
    /\ PartIdle /\ GrpIdle

NextPipe ==
    /\ (EncoderWriteFrame \/ EncoderFinish)
    /\ UNCHANGED <<segVars, extVars, codVars, wideVars, playVars, animVars, mapVars, partVars,
                   grpVars>>

SpecPipe == InitPipe /\ [][NextPipe]_vars

PixelCount == pipe_size[1] * pipe_size[2]

\* the calls that returned Ok, in the order they were made
OkCalls == SelectSeq(pipe_calls, LAMBDA c : c.result = "ok")

NoWriteFailed ==
    \A n \in 1..Len(pipe_calls) : pipe_calls[n].result \in {"ok", "invalid_frame_size"}

\* stream holds, as its f-th frame of per_pixel bytes a pixel, the channels
\* first .. first + per_pixel - 1 of the pixels of frame_data
StreamHoldsFrame(stream, f, frame_data, per_pixel, first) ==
    \A i \in 1..PixelCount : \A c \in 1..per_pixel :
        stream[(f - 1) * PixelCount * per_pixel + (i - 1) * per_pixel + c]
            = frame_data[(i - 1) * 4 + first + c - 1]

\* C34: write_frame returns an error and writes to neither stream when the
\* frame is not width * height * 4 bytes long; when it returns Ok it has
\* written one RGB frame of width * height * 3 bytes and one mask frame of
\* width * height bytes; so after calls that all succeeded or were refused
\* for their size, the two streams hold the same frames, in the order given.
C34_FramesSplitInStep ==
    /\ \A n \in 1..Len(pipe_calls) :
        LET c == pipe_calls[n]
        IN /\ Len(c.frame_data) # PixelCount * 4
               => /\ c.result = "invalid_frame_size"
                  /\ c.rgb_after = c.rgb_before
                  /\ c.mask_after = c.mask_before
           /\ Len(c.frame_data) = PixelCount * 4 => c.result # "invalid_frame_size"
           /\ c.result = "ok"
               => /\ c.rgb_after = c.rgb_before + PixelCount * 3
                  /\ c.mask_after = c.mask_before + PixelCount
    /\ NoWriteFailed
        => /\ Len(rgb_stream) = Len(OkCalls) * PixelCount * 3
           /\ Len(mask_stream) = Len(OkCalls) * PixelCount
           /\ \A f \in 1..Len(OkCalls) :
                /\ StreamHoldsFrame(rgb_stream, f, OkCalls[f].frame_data, 3, 1)
                /\ StreamHoldsFrame(mask_stream, f, OkCalls[f].frame_data, 1, 4)

\* two different frames of two pixels written and a short one refused between
\* them, then finish
C34_Witness ==
    /\ pipe_pc = "finished"
    /\ PixelCount = 2
    /\ Len(pipe_calls) = 3
    /\ pipe_calls[1].result = "ok"
    /\ pipe_calls[2].result = "invalid_frame_size"
    /\ pipe_calls[3].result = "ok"
    /\ pipe_calls[1].frame_data # pipe_calls[3].frame_data
    /\ Len(rgb_stream) = 12
    /\ Len(mask_stream) = 4

\* the chunk the shown frame needs: that of the index nearest to its time,
\* the last chunk at most
NeededByShownFrame ==
    LET den == progress_den(play_args)
        nearest == (2 * time_num(play_args, ShownFrame) + den) \div (2 * den)
        size == (max_coords_of(metadata) + 7) \div 8
        count == (max_coords_of(metadata) + size - 1) \div size
        chunk == nearest \div size
    IN IF chunk < count - 1 THEN chunk ELSE count - 1

ChunkCount ==
    LET size == (max_coords_of(metadata) + 7) \div 8
    IN (max_coords_of(metadata) + size - 1) \div size

\* C35: over the frames of a job the needed chunk never decreases, so the
\* chunks are loaded in increasing order, each at most once and at most
\* num_chunks times in all, and when the batch of a frame is built the
\* resident window is the window of the chunk that frame needs.
C35_ChunksLoadedOnceInOrder ==
    /\ \A a, b \in 1..Len(chunk_loads) : a < b => chunk_loads[a] < chunk_loads[b]
    /\ Len(chunk_loads) > 0 => Len(chunk_loads) <= ChunkCount
    /\ FrameShown
        => /\ current_chunk_idx = NeededByShownFrame
           /\ chunk_loads[Len(chunk_loads)] = current_chunk_idx
           /\ loaded_chunk_start = WindowLow(current_chunk_idx)
           /\ loaded_chunk_end = WindowHigh(current_chunk_idx)
           /\ LoadedIsWindow(loaded_runs, loaded_chunk_start, loaded_chunk_end)

\* a finished job that needed every one of its eight chunks of two indices,
\* over more frames than chunks
C35_Witness ==
    /\ encoder_finished
    /\ ChunkCount = 8
    /\ chunk_size(metadata) = 2
    /\ chunk_loads = <<0, 1, 2, 3, 4, 5, 6, 7>>
    /\ total_frames > 8

\* the index after that of run r in the shown frame, the last index at most
NextIndexOf(r) ==
    IF CoordIndexOf(r) + 1 < metadata[r].coord_count - 1
    THEN CoordIndexOf(r) + 1 ELSE metadata[r].coord_count - 1

Resident(i) == loaded_chunk_start <= i /\ i < loaded_chunk_end

\* the slot of index i in the loaded slice of a run
LocalIndex(i) == i - loaded_chunk_start

\* C36: whenever the player emits an instance for a run at index i, the next
\* index min(i + 1, count - 1) is resident too: the fallback that takes the
\* current coordinate for an unloaded next one is never taken, and both
\* local indices lie inside the slice loaded for the run.
C36_NextIndexIsResident ==
    FrameShown =>
        \A r \in 1..Len(metadata) :
            /\ frame_out[r].status # "short"
            /\ frame_out[r].status = "drawn"
                => /\ Resident(CoordIndexOf(r))
                   /\ Resident(NextIndexOf(r))
                   /\ ~frame_out[r].used_fallback
                   /\ LocalIndex(CoordIndexOf(r)) < Len(loaded_runs[r].coords)
                   /\ LocalIndex(NextIndexOf(r)) < Len(loaded_runs[r].coords)
                   /\ frame_out[r].next_coord
                          = loaded_runs[r].coords[LocalIndex(NextIndexOf(r)) + 1]

\* an instance emitted at the last index of the needed chunk plus one, its
\* next index being the last one the overlap keeps resident, below the end
\* of the run
C36_Witness ==
    /\ FrameShown
    /\ \E r \in 1..Len(metadata) :
        /\ frame_out[r].status = "drawn"
        /\ CoordIndexOf(r) = (current_chunk_idx + 1) * chunk_size(metadata)
        /\ NextIndexOf(r) = CoordIndexOf(r) + 1
        /\ NextIndexOf(r) = loaded_chunk_end - 1
        /\ loaded_chunk_end < max_coords_of(metadata)

(***************************************************************************)
(* Specification of the grouping into sequences                            *)
(***************************************************************************)
InitGroup ==
    GrpInit /\ SegIdle /\ ExtIdle /\ CodIdle /\ WideIdle /\ PlayIdle /\ AnimIdle /\ MapIdle
    /\ PartIdle /\ PipeIdle

NextGroup ==
    /\ (GroupFrame \/ CollectSequences)
    /\ UNCHANGED <<segVars, extVars, codVars, wideVars, playVars, animVars, mapVars, partVars,
                   pipeVars>>

SpecGroup == InitGroup /\ [][NextGroup]_vars

\* the rows of the frames of the n-th sequence returned
RowsOf(n) == {grp_result[n].frames[i].row : i \in 1..Len(grp_result[n].frames)}

InSameSequence(a, b) == \E n \in 1..Len(grp_result) : a \in RowsOf(n) /\ b \in RowsOf(n)

SamePair(a, b) ==
    /\ grp_frames[a].user = grp_frames[b].user
    /\ grp_frames[a].env_id = grp_frames[b].env_id

\* the frames of one (user, env_id) pair are never spread over two sequences
SamePairSameSequence ==
    grp_pc = "done" => \A a, b \in 1..Len(grp_frames) : SamePair(a, b) => InSameSequence(a, b)

\* C37: the grouping puts two frames in the same sequence if and only if
\* they have the same user and the same env_id, whatever these strings are:
\* frames of different (user, env_id) pairs are never merged.
C37_SequenceIffSamePair ==
    grp_pc = "done"
        => \A a, b \in 1..Len(grp_frames) : InSameSequence(a, b) <=> SamePair(a, b)

(***************************************************************************)
(* Claims about the checkpoint order inside a run                          *)
(***************************************************************************)
\* the checkpoint index of the region of sample i, -1 when it has none
CheckpointOf(i) == Position(map_id_order_required, frames[i + 1].coords[3])

RECURSIVE DeepestCheckpoint(_, _)
\* the largest checkpoint index among the samples from .. to, -1 if none
DeepestCheckpoint(from, to) ==
    IF to < from THEN -1
    ELSE LET rest == DeepestCheckpoint(from, to - 1)
         IN IF CheckpointOf(to) > rest THEN CheckpointOf(to) ELSE rest

\* every sample of the span after the first is at most one checkpoint above
\* the deepest one among the earlier samples after the first, and above 5
ClimbsOneAtATime(span) ==
    \A i \in (span.first + 1)..span.last :
        LET deepest == DeepestCheckpoint(span.first + 1, i - 1)
        IN CheckpointOf(i) <= (IF deepest > 5 THEN deepest ELSE 5) + 1

\* the span starts deeper than checkpoint 6 and never leaves the region
StaysInDeepRegion(span) ==
    /\ CheckpointOf(span.first) > 6
    /\ \A i \in span.first..span.last : frames[i + 1].coords[3] = frames[span.first + 1].coords[3]

\* C38: in every run the strict segmenter emits (and every span it closes),
\* each sample after the first that is in a checkpoint region has a
\* checkpoint index at most one above max(5, the largest index among the
\* earlier samples after the first); so a span that starts deeper than
\* checkpoint 6 and stays in its region is a single sample.
C38_CheckpointsClimbByOne ==
    seg_args.tool = "extract"
        => \A span \in Range(runs) \cup Range(candidates) :
            /\ ClimbsOneAtATime(span)
            /\ StaysInDeepRegion(span) => span.last = span.first

\* a written run that climbed the checkpoints 6, 7 and 8 one at a time, and
\* after it two spans of one sample each, closed one after the other in
\* region 13 (checkpoint 7)
C38_Witness ==
    /\ seg_args.tool = "extract"
    /\ \E n \in 1..Len(runs) :
        /\ runs[n].last >= runs[n].first + 4
        /\ DeepestCheckpoint(runs[n].first + 1, runs[n].last) = 8
    /\ \E a, b \in 1..Len(candidates) :
        /\ candidates[a].last = candidates[a].first
        /\ candidates[b] = [first |-> candidates[a].first + 1, last |-> candidates[a].first + 1]
        /\ CheckpointOf(candidates[a].first) = 7
        /\ frames[candidates[b].first + 1] = frames[candidates[a].first + 1]

(***************************************************************************)
(* Claims about the start of a render job                                  *)
(***************************************************************************)
Prepared == play_pc # "start"

\* the run file is empty, every run is empty, or start_step is at or beyond
\* the largest coordinate count
NothingToPlay ==
    \/ metadata = <<>>
    \/ max_coords_of(metadata) = 0
    \/ play_args.start_step >= max_coords_of(metadata)

EndedWithoutFrame ==
    /\ play_pc = "done"
    /\ total_frames = 0
    /\ encoder_frames = <<>>
    /\ frame_out = <<>>
    /\ chunk_loads = <<>>

\* C39: the render tool ends without a frame and without a division by zero
\* when the run file is empty, when every run has 0 coordinates or when
\* start_step is at or beyond the largest count; otherwise chunk_size >= 1
\* and num_chunks >= 1.
C39_EndsCleanlyOrHasChunks ==
    Prepared
        => IF NothingToPlay THEN EndedWithoutFrame
           ELSE play_pc # "panicked"
                /\ (max_coords_of(metadata) + 7) \div 8 >= 1
                /\ num_chunks(metadata) >= 1

\* the same with a speed multiplier of at least 1
EndsCleanlyWithPositiveSpeed ==
    (Prepared /\ play_args.speed_multiplier >= 1)
        => IF NothingToPlay THEN EndedWithoutFrame
           ELSE (max_coords_of(metadata) + 7) \div 8 >= 1 /\ num_chunks(metadata) >= 1

\* C40: for positive interval_ms and speed_multiplier the effective interval
\* is interval_ms / speed_multiplier and is positive, so the job has at least
\* one frame whenever there are coordinates to play.
C40_EffectiveIntervalIsQuotient ==
    (Prepared /\ metadata # <<>> /\ play_args.interval_ms > 0
            /\ play_args.speed_multiplier > 0)
        => /\ effective_interval_ms(play_args) * play_args.speed_multiplier
                  = play_args.interval_ms
           /\ effective_interval_ms(play_args) > 0
           /\ ~NothingToPlay => total_frames > 0

====
